---- MODULE Spec2Model ----
(***************************************************************************)
(* County-level election results pipeline of PARealignmentMap:             *)
(*   process_openelections.py   rows -> county_results -> canonical JSON   *)
(*   merge_official_2022_data.py / merge_official_2024_data.py             *)
(*                              official CSV -> merged into canonical JSON *)
(* Strings that the code inspects character by character (county names,    *)
(* party names) are sequences of one-character strings.                    *)
(***************************************************************************)
EXTENDS Integers, Sequences, FiniteSets, TLC

VARIABLES
    pc,              \* position of the running script
    office_df,       \* process_openelections: the rows of the race being loaded
    idx,             \* process_openelections: rows of office_df consumed so far
    county_results,  \* process_openelections: county key -> accumulated data
    election_data,   \* process_openelections: year -> race -> county_results
    file,            \* pa_election_results.json as written on disk
    script,          \* merge scripts: which merge script runs (2022 or 2024)
    csv_df,          \* merge scripts: rows of the official CSV
    csv_aggregated,  \* merge scripts: office -> county -> summed votes
    file_before,     \* merge scripts: the file before the first merge
    file_first,      \* merge scripts: the file after the first merge
    merges,          \* merge scripts: merges of csv_df done so far
    official_file,   \* process_openelections: year of the official CSV that exists, 0 for none
    official_df,     \* process_openelections: the rows of that official CSV
    margin_pct,      \* get_competitiveness: its argument
    competitiveness, \* get_competitiveness: the script that ran and what it returned
    county_trends,   \* generate_detailed_findings: county -> list of data points
    flipped,         \* generate_detailed_findings: result of identify_flipped_counties
    statewide,       \* generate_detailed_findings: result of analyze_statewide_trends
    raw,             \* a normalize_* function: which one is called, and its arguments
    normalized,      \* a normalize_* function: what it returned
    trend_years,     \* generate_detailed_findings: years_available of analyze_county_trends
    files_found,     \* process_openelections: the years whose input file exists
    fetch,           \* fetch_missing_counties: race, race_id and URL the loops are at
    requests,        \* fetch_missing_counties: the requests issued, with their outcomes
    runs,            \* scripts run at the same time: each one's script, position and data
    writes,          \* scripts run at the same time: the runs that have saved, in order
    torn             \* the text of the file stops before its end

vars == <<pc, office_df, idx, county_results, election_data, file,
          script, csv_df, csv_aggregated, file_before, file_first, merges,
          official_file, official_df, margin_pct, competitiveness,
          county_trends, flipped, statewide, raw, normalized, trend_years, files_found,
          fetch, requests, runs, writes, torn>>

\* the variables of the scripts that do not take part in the pipeline runs
other_vars == <<raw, normalized, trend_years, files_found,
          fetch, requests, runs, writes, torn>>

\* one script runs at a time and its write is whole
NoRuns ==
    /\ runs = <<>>
    /\ writes = <<>>
    /\ torn = FALSE

NoOther ==
    /\ raw = [fn |-> "", arg |-> <<>>, office_name |-> ""]
    /\ normalized = <<>>
    /\ trend_years = <<>>
    /\ fetch = [race |-> 0, race_id |-> 0, url |-> 0]
    /\ requests = <<>>
    /\ NoRuns

----------------------------------------------------------------------------
(* Bounds *)

MaxRows == 3
MaxCsvRows == 2
MaxVotes == 2
MaxMerges == 2
MaxOfficialRows == 2
MaxPct == 41
MaxChars == 3
MaxRaceId == 1

----------------------------------------------------------------------------
(* Characters and Python's str methods *)

Lowers == <<"a","b","c","d","e","f","g","h","i","j","k","l","m",
            "n","o","p","q","r","s","t","u","v","w","x","y","z">>
Uppers == <<"A","B","C","D","E","F","G","H","I","J","K","L","M",
            "N","O","P","Q","R","S","T","U","V","W","X","Y","Z">>

IndexOf(c, seq) ==
    IF \E i \in 1..Len(seq) : seq[i] = c
    THEN CHOOSE i \in 1..Len(seq) : seq[i] = c
    ELSE 0

\* the letters, and each letter in the other case
LowerSet == {Lowers[i] : i \in 1..Len(Lowers)}
UpperSet == {Uppers[i] : i \in 1..Len(Uppers)}
UpperOf == [c \in LowerSet |-> Uppers[IndexOf(c, Lowers)]]
LowerOf == [c \in UpperSet |-> Lowers[IndexOf(c, Uppers)]]

IsLower(c) == c \in LowerSet
IsUpper(c) == c \in UpperSet
IsAlpha(c) == IsLower(c) \/ IsUpper(c)
IsSpace(c) == c = " "
\* \w of the re module: letters, digits and the underscore
IsWordChar(c) == IsAlpha(c) \/ c \in {"0","1","2","3","4","5","6","7","8","9","_"}

ToUpper(c) == IF IsLower(c) THEN UpperOf[c] ELSE c
ToLower(c) == IF IsUpper(c) THEN LowerOf[c] ELSE c

\* str.upper()
Upper(s) == [i \in 1..Len(s) |-> ToUpper(s[i])]

\* str.title(): a letter that follows a letter is lowercased, any other
\* letter is uppercased, other characters are kept
Title(s) ==
    [i \in 1..Len(s) |->
        IF IsAlpha(s[i])
        THEN IF i > 1 /\ IsAlpha(s[i-1]) THEN ToLower(s[i]) ELSE ToUpper(s[i])
        ELSE s[i]]

\* str.strip()
RECURSIVE LStrip(_)
LStrip(s) == IF s # <<>> /\ IsSpace(Head(s)) THEN LStrip(Tail(s)) ELSE s

RECURSIVE RStrip(_)
RStrip(s) ==
    IF s # <<>> /\ IsSpace(s[Len(s)]) THEN RStrip(SubSeq(s, 1, Len(s) - 1)) ELSE s

Strip(s) == RStrip(LStrip(s))

\* " ".join(s.split()): no leading or trailing blank, runs of blanks become one
RECURSIVE DropRepeatedSpaces(_)
DropRepeatedSpaces(s) ==
    IF Len(s) < 2 THEN s
    ELSE IF IsSpace(s[1]) /\ IsSpace(s[2]) THEN DropRepeatedSpaces(Tail(s))
    ELSE <<Head(s)>> \o DropRepeatedSpaces(Tail(s))

JoinSplit(s) == DropRepeatedSpaces(Strip(s))

StartsWith(s, p) == Len(s) >= Len(p) /\ SubSeq(s, 1, Len(p)) = p

\* str.replace(p, ""): every non-overlapping occurrence, left to right
RECURSIVE RemoveAll(_, _)
RemoveAll(s, p) ==
    IF s = <<>> THEN <<>>
    ELSE IF StartsWith(s, p) THEN RemoveAll(SubSeq(s, Len(p) + 1, Len(s)), p)
    ELSE <<Head(s)>> \o RemoveAll(Tail(s), p)

\* the identity in the place of the Mc correction
McUnfixed(s) == s

\* re.sub(r"\bMc([a-z])", lambda m: "Mc" + m.group(1).upper(), name)
McFix(s) ==
    [i \in 1..Len(s) |->
        IF /\ i >= 3
           /\ s[i-2] = "M"
           /\ s[i-1] = "c"
           /\ IsLower(s[i])
           /\ (i = 3 \/ ~IsWordChar(s[i-3]))
        THEN ToUpper(s[i])
        ELSE s[i]]

SpaceCounty == <<" ","C","o","u","n","t","y">>

\* process_openelections.normalize_county_name
normalize_county_name(county) ==
    IF county = <<>> THEN <<>>
    ELSE LET name == Strip(RemoveAll(county, SpaceCounty))
         IN  IF name = <<>> THEN <<>>
             ELSE McFix(Title(JoinSplit(name)))


\* str.lower()
Lower(s) == [i \in 1..Len(s) |-> ToLower(s[i])]

\* re.sub(r"\bDe([a-z])", lambda m: "De" + m.group(1).upper(), name)
DeFix(s) ==
    [i \in 1..Len(s) |->
        IF /\ i >= 3
           /\ s[i-2] = "D"
           /\ s[i-1] = "e"
           /\ IsLower(s[i])
           /\ (i = 3 \/ ~IsWordChar(s[i-3]))
        THEN ToUpper(s[i])
        ELSE s[i]]

\* a separator of r"\s*(?:/|and|&)\s*" (re.IGNORECASE) starts at position i
SeparatorAt(s, i) ==
    \/ s[i] \in {"/", "&"}
    \/ /\ i + 2 <= Len(s)
       /\ ToLower(s[i]) = "a"
       /\ ToLower(s[i+1]) = "n"
       /\ ToLower(s[i+2]) = "d"

\* re.split(..., maxsplit=1)[0]: the text before the leftmost separator; the
\* blanks the pattern's leading \s* takes are removed here as well
BeforeSeparator(s) ==
    IF \E i \in 1..Len(s) : SeparatorAt(s, i)
    THEN LET i == CHOOSE k \in 1..Len(s) :
                      SeparatorAt(s, k) /\ \A j \in 1..(k-1) : ~SeparatorAt(s, j)
         IN  RStrip(SubSeq(s, 1, i - 1))
    ELSE s

\* re.sub(r"\b([A-Z])\b(?!\.)", r"\1.", name)
RECURSIVE InitialPeriodFrom(_, _)
InitialPeriodFrom(s, i) ==
    IF i > Len(s) THEN <<>>
    ELSE LET alone == /\ IsUpper(s[i])
                      /\ (i = 1 \/ ~IsWordChar(s[i-1]))
                      /\ (i = Len(s) \/ ~IsWordChar(s[i+1]))
                      /\ ~(i < Len(s) /\ s[i+1] = ".")
         IN  (IF alone THEN <<s[i], ".">> ELSE <<s[i]>>) \o InitialPeriodFrom(s, i + 1)

InitialPeriod(s) == InitialPeriodFrom(s, 1)

suffix_map ==
       <<"J","r">> :> <<"J","r",".">>
    @@ <<"S","r">> :> <<"S","r",".">>
    @@ <<"I","i">> :> <<"I","I">>
    @@ <<"I","i","i">> :> <<"I","I","I">>
    @@ <<"I","v">> :> <<"I","V">>
    @@ <<"V">> :> <<"V">>

\* index of the first character of the last blank-separated token
LastTokenStart(s) ==
    IF \E i \in 1..Len(s) : IsSpace(s[i])
    THEN 1 + CHOOSE i \in 1..Len(s) :
                 IsSpace(s[i]) /\ \A j \in (i+1)..Len(s) : ~IsSpace(s[j])
    ELSE 1

FixSuffix(s) ==
    IF s = <<>> THEN s
    ELSE LET k    == LastTokenStart(s)
             last == SubSeq(s, k, Len(s))
         IN  IF last \in DOMAIN suffix_map
             THEN SubSeq(s, 1, k - 1) \o suffix_map[last]
             ELSE s

\* process_openelections.normalize_candidate_name
normalize_candidate_name(candidate, office_name) ==
    IF Strip(candidate) = <<>> THEN <<>>
    ELSE LET name  == Strip(candidate)
             first == IF office_name \in {"President", "Governor"}
                      THEN BeforeSeparator(name)
                      ELSE name
         IN  FixSuffix(DeFix(McFix(InitialPeriod(Title(JoinSplit(first))))))

party_mapping ==
       <<"D","e","m">> :> <<"D","E","M">>
    @@ <<"D","e","m","o","c","r","a","t","i","c">> :> <<"D","E","M">>
    @@ <<"R","e","p">> :> <<"R","E","P">>
    @@ <<"R","e","p","u","b","l","i","c","a","n">> :> <<"R","E","P">>
    @@ <<"G","r","n">> :> <<"G","R","N">>
    @@ <<"G","r","e","e","n">> :> <<"G","R","N">>
    @@ <<"G","r","e","e","n"," ","P","a","r","t","y">> :> <<"G","R","N">>
    @@ <<"L","i","b">> :> <<"L","I","B">>
    @@ <<"L","i","b","e","r","t","a","r","i","a","n">> :> <<"L","I","B">>
    @@ <<"C","o","n","s","t">> :> <<"C","N","S","T">>
    @@ <<"C","o","n","s","t","i","t","u","t","i","o","n">> :> <<"C","N","S","T">>
    @@ <<"C","o","n","s","t","i","t","u","t","i","o","n"," ","P","a","r","t","y">> :> <<"C","N","S","T">>
    @@ <<"R","e","f">> :> <<"R","E","F">>
    @@ <<"R","e","f","o","r","m">> :> <<"R","E","F">>
    @@ <<"F","o","r","w","a","r","d">> :> <<"F","W","D">>
    @@ <<"F","o","r","w","a","r","d"," ","P","a","r","t","y">> :> <<"F","W","D">>
    @@ <<"K","e","y","s","t","o","n","e">> :> <<"K","E","Y">>

\* process_openelections.normalize_party_code
normalize_party_code(party) ==
    LET p == Strip(party)
    IN  IF p = <<>> THEN <<>>
        ELSE IF p \in DOMAIN party_mapping THEN party_mapping[p]
        ELSE Upper(p)


----------------------------------------------------------------------------
(* Values shared by the scripts *)

\* dict.get(key, default) on a record whose keys may be absent
Get(d, k, default) == IF k \in DOMAIN d THEN d[k] ELSE default

EmptyDict == [x \in {} |-> 0]

\* A dict whose iteration order the code relies on: its keys in insertion
\* order and its values
EmptyOD == [keys |-> <<>>, data |-> EmptyDict]

Range(f) == {f[x] : x \in DOMAIN f}

\* d[k] = v
ODSet(d, k, v) ==
    [keys |-> IF k \in Range(d.keys) THEN d.keys ELSE Append(d.keys, k),
     data |-> (k :> v) @@ d.data]

\* a vote cell of a CSV: a number, an empty cell (NaN) or unparsable text
Num(n) == [t |-> "num", n |-> n]
NaN == [t |-> "nan", n |-> 0]
BadText == [t |-> "text", n |-> 0]

\* the integer nearest to n / d, halves to the even neighbour: round()
RoundDivNat(n, d) ==
    LET q == n \div d
        r == n % d
    IN  IF 2 * r < d THEN q
        ELSE IF 2 * r > d THEN q + 1
        ELSE IF q % 2 = 0 THEN q ELSE q + 1

RoundDiv(n, d) == IF n >= 0 THEN RoundDivNat(n, d) ELSE 0 - RoundDivNat(0 - n, d)

\* round(num / den * 100, 2), in hundredths of a percent
RoundPct(num, den) == RoundDiv(num * 10000, den)

RECURSIVE SortedSeq(_)
\* sorted(S) for a finite set of integers
SortedSeq(S) ==
    IF S = {} THEN <<>>
    ELSE LET m == CHOOSE x \in S : \A y \in S : x <= y
         IN  <<m>> \o SortedSeq(S \ {m})

sDEM == <<"D","E","M">>
sREP == <<"R","E","P">>
sLIB == <<"L","I","B">>
sDemocratic == <<"D","e","m","o","c","r","a","t","i","c">>
sRepublican == <<"R","e","p","u","b","l","i","c","a","n">>
sLibertarian == <<"L","i","b","e","r","t","a","r","i","a","n">>
sOTHER == <<"O","T","H","E","R">>
sMCKEAN == <<"M","C","K","E","A","N">>

\* the document of a dataset that holds no results
EmptyDoc ==
    [metadata |-> [years |-> <<>>, contests |-> <<>>, counties_count |-> 0],
     results_by_year |-> <<>>]


----------------------------------------------------------------------------
(* get_competitiveness of the three scripts *)

\* A margin_pct is the exact quotient num / den percent, den > 0; the
\* thresholds of the scripts are whole halves of a percent
Lt(m, halves) == 2 * m.num < halves * m.den
Gt(m, halves) == 2 * m.num > halves * m.den
Ge(m, halves) == ~Lt(m, halves)

\* abs(margin_pct)
AbsPct(m) == [num |-> IF m.num < 0 THEN 0 - m.num ELSE m.num, den |-> m.den]

Bucket(category, party, code, color) ==
    [category |-> category, party |-> party, code |-> code, color |-> color]

\* process_openelections.get_competitiveness: 'elif margin_pct > 0' with a
\* threshold other than 0, as a slip would write it
DemocraticSideFromOne(m) == Gt(m, 2)

\* process_openelections.get_competitiveness, line 69: elif margin_pct > 0
DemocraticSide(m) == Gt(m, 0)

\* process_openelections.get_competitiveness
get_competitiveness(m) ==
    LET abs_margin == AbsPct(m)
    IN  IF Lt(abs_margin, 1)
        THEN Bucket("Tossup", "Competitive", "TOSSUP", "#f7f7f7")
        ELSE IF DemocraticSide(m)
        THEN IF Lt(abs_margin, 2)
             THEN Bucket("Tilt Democratic", "Democratic", "D_TILT", "#e1f5fe")
             ELSE IF Lt(abs_margin, 11)
             THEN Bucket("Lean Democratic", "Democratic", "D_LEAN", "#c6dbef")
             ELSE IF Lt(abs_margin, 20)
             THEN Bucket("Likely Democratic", "Democratic", "D_LIKELY", "#9ecae1")
             ELSE IF Lt(abs_margin, 40)
             THEN Bucket("Safe Democratic", "Democratic", "D_SAFE", "#6baed6")
             ELSE IF Lt(abs_margin, 60)
             THEN Bucket("Stronghold Democratic", "Democratic", "D_STRONGHOLD", "#3182bd")
             ELSE IF Lt(abs_margin, 80)
             THEN Bucket("Dominant Democratic", "Democratic", "D_DOMINANT", "#08519c")
             ELSE Bucket("Annihilation Democratic", "Democratic", "D_ANNIHILATION", "#08306b")
        ELSE IF Lt(abs_margin, 2)
             THEN Bucket("Tilt Republican", "Republican", "R_TILT", "#fee8c8")
             ELSE IF Lt(abs_margin, 11)
             THEN Bucket("Lean Republican", "Republican", "R_LEAN", "#fcae91")
             ELSE IF Lt(abs_margin, 20)
             THEN Bucket("Likely Republican", "Republican", "R_LIKELY", "#fb6a4a")
             ELSE IF Lt(abs_margin, 40)
             THEN Bucket("Safe Republican", "Republican", "R_SAFE", "#ef3b2c")
             ELSE IF Lt(abs_margin, 60)
             THEN Bucket("Stronghold Republican", "Republican", "R_STRONGHOLD", "#cb181d")
             ELSE IF Lt(abs_margin, 80)
             THEN Bucket("Dominant Republican", "Republican", "R_DOMINANT", "#a50f15")
             ELSE Bucket("Annihilation Republican", "Republican", "R_ANNIHILATION", "#67000d")

\* merge_official_2022_data.get_competitiveness
get_competitiveness_2022(m) ==
    IF Ge(m, 80)
    THEN Bucket("Annihilation Democratic", "Democratic", "D_ANNIHILATION", "#08306b")
    ELSE IF Ge(m, 60)
    THEN Bucket("Dominant Democratic", "Democratic", "D_DOMINANT", "#08519c")
    ELSE IF Ge(m, 40)
    THEN Bucket("Stronghold Democratic", "Democratic", "D_STRONGHOLD", "#3182bd")
    ELSE IF Ge(m, 20)
    THEN Bucket("Safe Democratic", "Democratic", "D_SAFE", "#6baed6")
    ELSE IF Ge(m, 11)
    THEN Bucket("Likely Democratic", "Democratic", "D_LIKELY", "#9ecae1")
    ELSE IF Ge(m, 2)
    THEN Bucket("Lean Democratic", "Democratic", "D_LEAN", "#c6dbef")
    ELSE IF Ge(m, 1)
    THEN Bucket("Tilt Democratic", "Democratic", "D_TILT", "#e1f5fe")
    ELSE IF Gt(m, -1)
    THEN Bucket("Tossup", "Tossup", "TOSSUP", "#f7f7f7")
    ELSE IF Gt(m, -2)
    THEN Bucket("Tilt Republican", "Republican", "R_TILT", "#fee8c8")
    ELSE IF Gt(m, -11)
    THEN Bucket("Lean Republican", "Republican", "R_LEAN", "#fcae91")
    ELSE IF Gt(m, -20)
    THEN Bucket("Likely Republican", "Republican", "R_LIKELY", "#fb6a4a")
    ELSE IF Gt(m, -40)
    THEN Bucket("Safe Republican", "Republican", "R_SAFE", "#ef3b2c")
    ELSE IF Gt(m, -60)
    THEN Bucket("Stronghold Republican", "Republican", "R_STRONGHOLD", "#cb181d")
    ELSE IF Gt(m, -80)
    THEN Bucket("Dominant Republican", "Republican", "R_DOMINANT", "#a50f15")
    ELSE Bucket("Annihilation Republican", "Republican", "R_ANNIHILATION", "#67000d")

\* a threshold of the table: so many halves of a percent, or float('-inf')
Threshold(halves) == [finite |-> TRUE, halves |-> halves]
MinusInf == [finite |-> FALSE, halves |-> 0]

\* margin_pct > threshold
Exceeds(m, threshold) == ~threshold.finite \/ Gt(m, threshold.halves)

\* merge_official_2024_data.get_competitiveness, lines 13-25: the table, its
\* thresholds in halves of a percent
categories_2024 ==
    <<[threshold |-> Threshold(80), bucket |-> Bucket("Annihilation", "Democratic", "D_ANNIHILATION", "#08519c")],
      [threshold |-> Threshold(40), bucket |-> Bucket("Dominant", "Democratic", "D_DOMINANT", "#3182bd")],
      [threshold |-> Threshold(20), bucket |-> Bucket("Safe", "Democratic", "D_SAFE", "#6baed6")],
      [threshold |-> Threshold(10), bucket |-> Bucket("Likely", "Democratic", "D_LIKELY", "#9ecae1")],
      [threshold |-> Threshold(4), bucket |-> Bucket("Lean", "Democratic", "D_LEAN", "#c6dbef")],
      [threshold |-> Threshold(-4), bucket |-> Bucket("Tossup", "Tossup", "TOSSUP", "#f7f7f7")],
      [threshold |-> Threshold(-10), bucket |-> Bucket("Lean", "Republican", "R_LEAN", "#fee5d9")],
      [threshold |-> Threshold(-20), bucket |-> Bucket("Likely", "Republican", "R_LIKELY", "#fcae91")],
      [threshold |-> Threshold(-40), bucket |-> Bucket("Safe", "Republican", "R_SAFE", "#fb6a4a")],
      [threshold |-> Threshold(-80), bucket |-> Bucket("Dominant", "Republican", "R_DOMINANT", "#cb181d")],
      [threshold |-> MinusInf,
       bucket |-> Bucket("Annihilation", "Republican", "R_ANNIHILATION", "#67000d")]>>

\* lines 27-34: the first row whose threshold the margin exceeds
RECURSIVE FirstCategory(_, _, _)
FirstCategory(categories, i, m) ==
    IF i > Len(categories)
    THEN Bucket("Annihilation", "Republican", "R_ANNIHILATION", "#67000d")
    ELSE IF Exceeds(m, categories[i].threshold)
    THEN categories[i].bucket
    ELSE FirstCategory(categories, i + 1, m)

\* merge_official_2024_data.get_competitiveness
get_competitiveness_2024(m) == FirstCategory(categories_2024, 1, m)

----------------------------------------------------------------------------
(* process_openelections.py *)

sAlGore == <<"A","l"," ","G","o","r","e">>
sGeorgeWBush == <<"G","e","o","r","g","e"," ","W","."," ","B","u","s","h">>
sJohnFKerry == <<"J","o","h","n"," ","F","."," ","K","e","r","r","y">>
sBarackObama == <<"B","a","r","a","c","k"," ","O","b","a","m","a">>
sJohnMcCain == <<"J","o","h","n"," ","M","c","C","a","i","n">>
sMittRomney == <<"M","i","t","t"," ","R","o","m","n","e","y">>
sHillaryClinton == <<"H","i","l","l","a","r","y"," ","C","l","i","n","t","o","n">>
sDonaldJTrump == <<"D","o","n","a","l","d"," ","J","."," ","T","r","u","m","p">>
sJoeBiden == <<"J","o","e"," ","B","i","d","e","n">>
sKamalaHarris == <<"K","a","m","a","l","a"," ","H","a","r","r","i","s">>

president_map ==
       2000 :> (sDEM :> sAlGore @@ sREP :> sGeorgeWBush)
    @@ 2004 :> (sDEM :> sJohnFKerry @@ sREP :> sGeorgeWBush)
    @@ 2008 :> (sDEM :> sBarackObama @@ sREP :> sJohnMcCain)
    @@ 2012 :> (sDEM :> sBarackObama @@ sREP :> sMittRomney)
    @@ 2016 :> (sDEM :> sHillaryClinton @@ sREP :> sDonaldJTrump)
    @@ 2020 :> (sDEM :> sJoeBiden @@ sREP :> sDonaldJTrump)
    @@ 2024 :> (sDEM :> sKamalaHarris @@ sREP :> sDonaldJTrump)

get_president_name(year, party_code) ==
    Get(Get(president_map, year, EmptyDict), party_code, <<>>)

\* the year and the race of the county-level file that load_election_data reads
LoadYear == 2012
LoadRace == "Auditor General"

\* lines 919-926: candidate -> party, the first labelled row of a candidate wins
RECURSIVE CandidatePartyMapFrom(_, _, _, _)
CandidatePartyMapFrom(rows, i, race_type, map) ==
    IF i > Len(rows) THEN map
    ELSE LET party == normalize_party_code(rows[i].party)
             key   == Lower(normalize_candidate_name(rows[i].candidate, race_type))
         IN  CandidatePartyMapFrom(rows, i + 1, race_type,
                 IF party # <<>> /\ key # <<>> /\ key \notin DOMAIN map
                 THEN (key :> party) @@ map
                 ELSE map)

CandidatePartyMap(rows, race_type) == CandidatePartyMapFrom(rows, 1, race_type, EmptyDict)

\* lines 929-933: the default value of county_results
NewCountyData ==
    [DEM |-> 0, REP |-> 0, other |-> 0, total |-> 0,
     dem_candidate |-> <<>>, rep_candidate |-> <<>>,
     all_parties |-> EmptyDict]

\* lines 937-942: the party of a row, looked up by candidate when the row has none
RowParty(row, race_type, candidate_party_map) ==
    LET party == normalize_party_code(row.party)
    IN  IF party = <<>> /\ row.candidate # <<>>
        THEN Get(candidate_party_map,
                 Lower(normalize_candidate_name(row.candidate, race_type)), party)
        ELSE party

\* lines 944-951: rows without a county or without a parsable vote count are skipped
RowSkipped(row) == row.votes.t # "num" \/ row.county = <<>>

\* lines 960-965 and 968-973: the candidate recorded for a major party
CandidateLabel(row, year, race_type, party_code) ==
    IF race_type = "President" /\ get_president_name(year, party_code) # <<>>
    THEN get_president_name(year, party_code)
    ELSE normalize_candidate_name(row.candidate, race_type)

\* line 955: all_parties[party] = votes
StoreAllParties(all_parties, party, votes) ==
    (party :> votes) @@ all_parties

\* += votes as a slip would write it: = votes
AddVotesOverwriting(old, votes) == votes

\* lines 959, 967, 975, 977: += votes
AddVotes(old, votes) == old + votes

\* lines 953-977: one row added to its county's data
AddRow(data, row, party, year, race_type) ==
    LET votes == row.votes.n
        d1 == IF party # <<>>
              THEN [data EXCEPT !.all_parties = StoreAllParties(@, party, votes)]
              ELSE data
        d2 == IF party = sDEM
              THEN [d1 EXCEPT !.DEM = AddVotes(@, votes),
                              !.dem_candidate =
                                  IF row.candidate # <<>>
                                  THEN CandidateLabel(row, year, race_type, sDEM)
                                  ELSE @]
              ELSE IF party = sREP
              THEN [d1 EXCEPT !.REP = AddVotes(@, votes),
                              !.rep_candidate =
                                  IF row.candidate # <<>>
                                  THEN CandidateLabel(row, year, race_type, sREP)
                                  ELSE @]
              ELSE [d1 EXCEPT !.other = AddVotes(@, votes)]
    IN  [d2 EXCEPT !.total = AddVotes(@, votes)]

\* merge_official_2022_data.py line 128, merge_official_2024_data.py line 126
WinnerWithTie(dem, rep) ==
    IF dem > rep THEN "DEM" ELSE IF rep > dem THEN "REP" ELSE "TIE"

\* line 999: 'DEM' if margin > 0 else 'REP'
WinnerOfMargin(margin) == IF margin > 0 THEN "DEM" ELSE "REP"

\* margin_pct over all votes, as a slip would compute it
MarginPctOfTotal(margin, two_party_total, total) == RoundPct(margin, total)

\* lines 991, 998: round((margin / two_party_total) * 100, 2)
MarginPct(margin, two_party_total, total) == RoundPct(margin, two_party_total)

\* lines 980-1000: the derived fields, set only when the two-party total is positive
WithMargins(data) ==
    LET dem == data.DEM
        rep == data.REP
        total == data.total
        other == data.other
        two_party_total == dem + rep
        margin == dem - rep
    IN  IF two_party_total > 0
        THEN [dem_pct |-> RoundPct(dem, total),
              rep_pct |-> RoundPct(rep, total),
              other_votes |-> other,
              two_party_total |-> two_party_total,
              margin |-> margin,
              margin_pct |-> MarginPct(margin, two_party_total, total),
              winner |-> WinnerOfMargin(margin),
              competitiveness |->
                  get_competitiveness([num |-> 100 * margin, den |-> two_party_total])]
             @@ data
        ELSE data


office_mapping ==
       "President" :> [category |-> "president", name |-> "President of the United States"]
    @@ "Governor" :> [category |-> "governor", name |-> "Governor of Pennsylvania"]
    @@ "U.S. Senate" :> [category |-> "us_senate", name |-> "United States Senator"]
    @@ "Attorney General" :>
           [category |-> "attorney_general", name |-> "Attorney General of Pennsylvania"]
    @@ "Auditor General" :>
           [category |-> "auditor_general", name |-> "Auditor General of Pennsylvania"]
    @@ "State Treasurer" :>
           [category |-> "state_treasurer", name |-> "State Treasurer of Pennsylvania"]

\* the contest categories in the order sorted() gives them
SortedCategories ==
    <<"attorney_general", "auditor_general", "governor", "president",
      "state_treasurer", "us_senate">>

\* sorted(list(S)) for a set of contest categories
SortedContests(S) == SelectSeq(SortedCategories, LAMBDA c : c \in S)

\* lines 1086-1100: the record written for one county
OutputRecord(county_clean, contest_name, year, data) ==
    [county |-> county_clean,
     contest |-> contest_name,
     year |-> year,
     dem_candidate |-> Get(data, "dem_candidate", <<>>),
     rep_candidate |-> Get(data, "rep_candidate", <<>>),
     dem_votes |-> data.DEM,
     rep_votes |-> data.REP,
     other_votes |-> Get(data, "other_votes", 0),
     total_votes |-> data.total,
     two_party_total |-> Get(data, "two_party_total", data.DEM + data.REP),
     margin |-> Get(data, "margin", 0),
     margin_pct |-> Get(data, "margin_pct", 0),
     winner |-> Get(data, "winner", "TIE"),
     competitiveness |-> Get(data, "competitiveness", EmptyDict),
     all_parties |-> Get(data, "all_parties", EmptyDict)]

\* lines 1081-1101: results[county_clean] = record, in the order of county_results;
\* a later county with the same cleaned name replaces the earlier record
RECURSIVE OutputResults(_, _, _, _, _)
OutputResults(order, county_data, contest_name, year, results) ==
    IF order = <<>> THEN results
    ELSE LET county == Head(order)
             county_clean == normalize_county_name(county)
         IN  OutputResults(Tail(order), county_data, contest_name, year,
                 (county_clean :> OutputRecord(county_clean, contest_name, year,
                                               county_data[county]))
                 @@ results)

\* lines 1059-1101: the section of one year
YearSection(year, year_races) ==
    LET categories == {office_mapping[r].category : r \in DOMAIN year_races.data}
        race_of(c) == CHOOSE r \in DOMAIN year_races.data : office_mapping[r].category = c
    IN  [c \in categories |->
            (<<c, year>> :>
                [contest_name |-> office_mapping[race_of(c)].name,
                 results |-> OutputResults(year_races.data[race_of(c)].keys,
                                           year_races.data[race_of(c)].data,
                                           office_mapping[race_of(c)].name, year,
                                           EmptyDict)])]

\* lines 1046-1120: the document create_output_json writes
create_output_json(election_data_) ==
    LET years == SortedSeq(DOMAIN election_data_.data)
        all_contests ==
            UNION {{office_mapping[r].category : r \in DOMAIN election_data_.data[y].data}
                   : y \in DOMAIN election_data_.data}
        first_year == IF election_data_.keys = <<>> THEN EmptyOD
                      ELSE election_data_.data[election_data_.keys[1]]
        counties_count == IF first_year.keys = <<>> THEN 0
                          ELSE Len(first_year.data[first_year.keys[1]].keys)
    IN  [metadata |-> [years |-> years,
                       contests |-> SortedContests(all_contests),
                       counties_count |-> counties_count],
         results_by_year |->
             [i \in 1..Len(years) |->
                 <<years[i], YearSection(years[i], election_data_.data[years[i]])>>]]

\* the rows a county-level OpenElections file can hold for one race
sErie == <<"E","r","i","e">>
sERIE == <<"E","R","I","E">>
sBerks == <<"B","e","r","k","s">>
sAnnLee == <<"A","n","n"," ","L","e","e">>
sANNLEE == <<"A","N","N"," ","L","E","E">>
sBoRay == <<"B","o"," ","R","a","y">>
sCyOrr == <<"C","y"," ","O","r","r">>

CandidateOf(party) ==
    IF party = sDEM THEN sAnnLee ELSE IF party = sREP THEN sBoRay ELSE sCyOrr

OfficeRow(c, p, v) ==
    [county |-> c, party |-> p, votes |-> Num(v), candidate |-> CandidateOf(p)]

OfficeRows ==
    {OfficeRow(sErie, p, v) : p \in {sDEM, sREP, sLIB}, v \in {1, MaxVotes}}
    \cup {OfficeRow(sERIE, p, 1) : p \in {sDEM, sREP}}
    \cup {OfficeRow(sBerks, sLIB, 1)}
    \cup {[county |-> sErie, party |-> <<>>, votes |-> Num(1), candidate |-> sANNLEE],
          [county |-> sErie, party |-> sDEM, votes |-> NaN, candidate |-> sAnnLee],
          [county |-> sBerks, party |-> sREP, votes |-> BadText, candidate |-> sBoRay],
          [county |-> <<>>, party |-> sLIB, votes |-> Num(1), candidate |-> sCyOrr]}

\* lines 935-977: county_results after one more row
LoadStep(county_results_, row, rows, year, race_type) ==
    LET party == RowParty(row, race_type, CandidatePartyMap(rows, race_type))
        old == IF row.county \in DOMAIN county_results_.data
               THEN county_results_.data[row.county]
               ELSE NewCountyData
    IN  IF RowSkipped(row) THEN county_results_
        ELSE ODSet(county_results_, row.county, AddRow(old, row, party, year, race_type))

\* lines 979-1000: the margins of every county
AllMargins(county_results_) ==
    [county_results_ EXCEPT
        !.data = [c \in DOMAIN county_results_.data |->
                     WithMargins(county_results_.data[c])]]

----------------------------------------------------------------------------
(* process_openelections.py: the loaders of the official county returns *)

sNan == <<"n","a","n">>
sEugeneDePasquale == <<"E","u","g","e","n","e"," ","D","e","P","a","s","q","u","a","l","e">>
sJohnMaher == <<"J","o","h","n"," ","M","a","h","e","r">>
sBetsySummers == <<"B","e","t","s","y"," ","S","u","m","m","e","r","s">>
sForwardParty == <<"F","o","r","w","a","r","d"," ","P","a","r","t","y">>

\* str(row.get(column, "")) of a cell read with dtype=str: an empty cell is NaN
StrOfCell(cell) == IF cell = <<>> THEN sNan ELSE cell

\* build_county_name_map, lines 292-293: county.upper() -> county
RECURSIVE CountyMapOf(_, _)
CountyMapOf(counties, county_map) ==
    IF counties = <<>> THEN county_map
    ELSE CountyMapOf(Tail(counties), (Upper(Head(counties)) :> Head(counties)) @@ county_map)

\* build_county_name_map: the loops return as soon as a race has given a county
RECURSIVE CountyMapFrom(_, _, _)
CountyMapFrom(election_data_, y, r) ==
    IF y > Len(election_data_.keys) THEN EmptyDict
    ELSE LET year_races == election_data_.data[election_data_.keys[y]]
         IN  IF r > Len(year_races.keys) THEN CountyMapFrom(election_data_, y + 1, 1)
             ELSE LET county_map == CountyMapOf(year_races.data[year_races.keys[r]].keys,
                                                EmptyDict)
                  IN  IF DOMAIN county_map # {} THEN county_map
                      ELSE CountyMapFrom(election_data_, y, r + 1)

build_county_name_map(election_data_) == CountyMapFrom(election_data_, 1, 1)

\* lines 403-407: county_name_map.get(county_raw.upper(), normalize_county_name(county_raw))
OfficialCounty(row, county_name_map) ==
    LET county_raw == Strip(StrOfCell(row.county_name))
    IN  Get(county_name_map, Upper(county_raw), normalize_county_name(county_raw))

\* lines 403-405 and 409-415: the rows a loader of official returns passes over
OfficialRowSkipped(row) ==
    Strip(StrOfCell(row.county_name)) = <<>> \/ row.votes.t # "num"

\* lines 422-435: the votes of a row added to its county under party_code, the
\* candidates of the two major parties set to the values given
CountOfficialRow(data, party_code, votes, dem_candidate_, rep_candidate_) ==
    LET d1 == [data EXCEPT !.all_parties = StoreAllParties(@, party_code, votes)]
        d2 == IF party_code = sDEM
              THEN [d1 EXCEPT !.DEM = AddVotes(@, votes), !.dem_candidate = dem_candidate_]
              ELSE IF party_code = sREP
              THEN [d1 EXCEPT !.REP = AddVotes(@, votes), !.rep_candidate = rep_candidate_]
              ELSE [d1 EXCEPT !.other = AddVotes(@, votes)]
    IN  [d2 EXCEPT !.total = AddVotes(@, votes)]

\* load_official_row_offices, lines 307-314
party_code_map_row_offices ==
       sDemocratic :> sDEM
    @@ sRepublican :> sREP
    @@ <<"G","r","e","e","n">> :> <<"G","R","N">>
    @@ sLibertarian :> sLIB
    @@ <<"C","o","n","s","t","i","t","u","t","i","o","n">> :> <<"C","N","S","T">>
    @@ <<"R","e","f","o","r","m">> :> <<"R","E","F">>

\* load_official_row_offices, lines 363-367: candidate_names[2012]["Auditor General"]
candidate_names_2012_auditor ==
       sDemocratic :> sEugeneDePasquale
    @@ sRepublican :> sJohnMaher
    @@ sLibertarian :> sBetsySummers

\* load_official_row_offices, lines 402-435: one row of the office
RowOfficesStep(county_results_, row, county_name_map) ==
    LET county == OfficialCounty(row, county_name_map)
        party_name == Strip(StrOfCell(row.party_name))
        party_code == Get(party_code_map_row_offices, party_name, Upper(party_name))
        listed == Get(candidate_names_2012_auditor, party_name, <<>>)
        candidate == IF listed # <<>> THEN listed ELSE Strip(StrOfCell(row.candidate_name))
        old == Get(county_results_.data, county, NewCountyData)
        name == IF candidate # <<>>
                THEN normalize_candidate_name(candidate, "Auditor General")
                ELSE <<>>
    IN  IF OfficialRowSkipped(row) THEN county_results_
        ELSE ODSet(county_results_, county,
                   CountOfficialRow(old, party_code, row.votes.n,
                       IF candidate # <<>> THEN name ELSE old.dem_candidate,
                       IF candidate # <<>> THEN name ELSE old.rep_candidate))

\* load_official_us_senate, lines 474-483
party_code_map_us_senate ==
       sDemocratic :> sDEM
    @@ sRepublican :> sREP
    @@ <<"G","r","e","e","n">> :> <<"G","R","N">>
    @@ <<"G","r","e","e","n"," ","P","a","r","t","y">> :> <<"G","R","N">>
    @@ sLibertarian :> sLIB
    @@ <<"C","o","n","s","t","i","t","u","t","i","o","n">> :> <<"C","N","S","T">>
    @@ <<"C","o","n","s","t","i","t","u","t","i","o","n"," ","P","a","r","t","y">> :> <<"C","N","S","T">>
    @@ <<"R","e","f","o","r","m">> :> <<"R","E","F">>

\* load_official_us_senate, lines 504-535: one row of the office
UsSenateStep(county_results_, row, county_name_map) ==
    LET county == OfficialCounty(row, county_name_map)
        party_name == Strip(StrOfCell(row.party_name))
        candidate == Strip(StrOfCell(row.candidate_name))
        party_code == Get(party_code_map_us_senate, party_name, Upper(party_name))
        old == Get(county_results_.data, county, NewCountyData)
        name == IF candidate # <<>>
                THEN normalize_candidate_name(candidate, "U.S. Senate")
                ELSE <<>>
    IN  IF OfficialRowSkipped(row) THEN county_results_
        ELSE ODSet(county_results_, county,
                   CountOfficialRow(old, party_code, row.votes.n,
                       IF candidate # <<>> THEN name ELSE old.dem_candidate,
                       IF candidate # <<>> THEN name ELSE old.rep_candidate))

\* load_official_statewide_2024, lines 696-733: one row of the office; the
\* candidate of a major party is assigned from every row of the party
Statewide2024Step(county_results_, row, county_name_map) ==
    LET county == OfficialCounty(row, county_name_map)
        party_code == normalize_party_code(row.party_name)
        candidate == Strip(StrOfCell(row.candidate_name))
        normalized_candidate == normalize_candidate_name(candidate, "U.S. Senate")
        old == Get(county_results_.data, county, NewCountyData)
    IN  IF OfficialRowSkipped(row) THEN county_results_
        ELSE ODSet(county_results_, county,
                   CountOfficialRow(old, party_code, row.votes.n,
                                    normalized_candidate, normalized_candidate))

\* the row loop of the loader named
OfficialStep(loader, county_results_, row, county_name_map) ==
    CASE loader = "row_offices" -> RowOfficesStep(county_results_, row, county_name_map)
      [] loader = "us_senate" -> UsSenateStep(county_results_, row, county_name_map)
      [] loader = "statewide_2024" -> Statewide2024Step(county_results_, row, county_name_map)

\* the loop over the rows of one office, then the margins of every county
RECURSIVE OfficialRowsFrom(_, _, _, _, _)
OfficialRowsFrom(rows, i, county_name_map, loader, county_results_) ==
    IF i > Len(rows) THEN AllMargins(county_results_)
    ELSE OfficialRowsFrom(rows, i + 1, county_name_map, loader,
                          OfficialStep(loader, county_results_, rows[i], county_name_map))

\* what a loader returns: year -> race -> county_results, nothing when its
\* file does not exist or has no row of the office
NoOfficialData == EmptyOD

OfficialData(year, race_type, county_results_) ==
    ODSet(EmptyOD, year, ODSet(EmptyOD, race_type, county_results_))

\* load_official_row_offices: the official file of 2012 holds Auditor General rows
load_official_row_offices(file_year, rows, county_name_map) ==
    IF file_year # 2012 \/ rows = <<>> THEN NoOfficialData
    ELSE OfficialData(2012, "Auditor General",
             OfficialRowsFrom(rows, 1, county_name_map, "row_offices", EmptyOD))

\* load_official_us_senate: the official file of 2024 holds United States Senator rows
load_official_us_senate(file_year, rows, county_name_map) ==
    IF file_year # 2024 \/ rows = <<>> THEN NoOfficialData
    ELSE OfficialData(2024, "U.S. Senate",
             OfficialRowsFrom(rows, 1, county_name_map, "us_senate", EmptyOD))

\* load_official_statewide_2024 reads the same file of 2024
load_official_statewide_2024(file_year, rows, county_name_map) ==
    IF file_year # 2024 \/ rows = <<>> THEN NoOfficialData
    ELSE OfficialData(2024, "U.S. Senate",
             OfficialRowsFrom(rows, 1, county_name_map, "statewide_2024", EmptyOD))

\* the county records of two sources added up, as a merge of the blocks would do
CombinedBlock(earlier, county_results_) ==
    [county_results_ EXCEPT
        !.data = [c \in DOMAIN county_results_.data |->
                     IF c \in DOMAIN earlier.data
                     THEN [county_results_.data[c] EXCEPT
                              !.DEM = @ + earlier.data[c].DEM,
                              !.REP = @ + earlier.data[c].REP,
                              !.total = @ + earlier.data[c].total]
                     ELSE county_results_.data[c]]]

\* main, lines 1169, 1177, 1185, 1193, 1201: the value stored for the race
StoredBlock(earlier, county_results_) == county_results_

\* main, lines 1164-1169: election_data[year][race_type] = county_results for
\* every year and race of a loader's data
RECURSIVE MergeRaces(_, _, _)
MergeRaces(year_races, official_races, r) ==
    IF r > Len(official_races.keys) THEN year_races
    ELSE LET race_type == official_races.keys[r]
             earlier == Get(year_races.data, race_type, EmptyOD)
         IN  MergeRaces(ODSet(year_races, race_type,
                              StoredBlock(earlier, official_races.data[race_type])),
                        official_races, r + 1)

RECURSIVE MergeYears(_, _, _)
MergeYears(election_data_, official_data, y) ==
    IF y > Len(official_data.keys) THEN election_data_
    ELSE LET year == official_data.keys[y]
             year_races == Get(election_data_.data, year, EmptyOD)
         IN  MergeYears(ODSet(election_data_, year,
                              MergeRaces(year_races, official_data.data[year], 1)),
                        official_data, y + 1)

MergeLoader(election_data_, official_data) == MergeYears(election_data_, official_data, 1)

\* main, lines 1161-1201: the loaders in the order main runs them, each merged
\* before the next is loaded; the files of load_official_governor and
\* load_official_statewide_2020 do not exist
AfterRowOffices(election_data_, file_year, rows) ==
    MergeLoader(election_data_,
        load_official_row_offices(file_year, rows, build_county_name_map(election_data_)))

AfterUsSenate(election_data_, file_year, rows) ==
    MergeLoader(AfterRowOffices(election_data_, file_year, rows),
        load_official_us_senate(file_year, rows, build_county_name_map(election_data_)))

AfterStatewide2024(election_data_, file_year, rows) ==
    MergeLoader(AfterUsSenate(election_data_, file_year, rows),
        load_official_statewide_2024(file_year, rows, build_county_name_map(election_data_)))

\* the rows an official CSV can hold for its office
OfficialRow(c, p, v, n) ==
    [county_name |-> c, party_name |-> p, votes |-> v, candidate_name |-> n]

OfficialRows ==
    {OfficialRow(sERIE, sDemocratic, Num(1), sANNLEE),
     OfficialRow(sERIE, sDemocratic, Num(MaxVotes), <<>>),
     OfficialRow(sERIE, sRepublican, Num(1), sBoRay),
     OfficialRow(<<>>, sRepublican, Num(1), sBoRay),
     OfficialRow(sERIE, sLibertarian, BadText, sCyOrr),
     OfficialRow(sMCKEAN, sForwardParty, Num(1), sCyOrr)}

\* the OpenElections rows of a run that also reads an official CSV
\* the last rows are a close race: 101 to 100 is a margin of 0.4975... percent
OfficeSamples ==
    {<<>>, <<OfficeRow(sErie, sDEM, 1)>>, <<OfficeRow(sBerks, sLIB, 1)>>,
     <<OfficeRow(sErie, sDEM, 101), OfficeRow(sErie, sREP, 100)>>}

\* the variables of the scripts that do not run
NoReport ==
    /\ margin_pct = [num |-> 0, den |-> 1]
    /\ competitiveness = EmptyDict
    /\ county_trends = EmptyOD
    /\ flipped = <<>>
    /\ statewide = [contest_type |-> "", entries |-> <<>>]

\* load_election_data for the rows of one race
RECURSIVE LoadRowsFrom(_, _, _, _, _)
LoadRowsFrom(rows, i, year, race_type, county_results_) ==
    IF i > Len(rows) THEN AllMargins(county_results_)
    ELSE LoadRowsFrom(rows, i + 1, year, race_type,
                      LoadStep(county_results_, rows[i], rows, year, race_type))

RaceRows(dem, rep, lib) ==
    <<[county |-> sErie, party |-> sDEM, votes |-> Num(dem), candidate |-> sAnnLee],
      [county |-> sErie, party |-> sREP, votes |-> Num(rep), candidate |-> sBoRay],
      [county |-> sBerks, party |-> sLIB, votes |-> Num(lib), candidate |-> sCyOrr],
      [county |-> sBerks, party |-> sREP, votes |-> Num(rep), candidate |-> sBoRay]>>

LoadedRace(year, race_type, dem, rep, lib) ==
    LoadRowsFrom(RaceRows(dem, rep, lib), 1, year, race_type, EmptyOD)

\* lines 878-880: the years of the loop that are modelled; the file of a year
\* exists or not
LaterYear == 2014
LaterRace == "Governor"
ElectionYears == {LoadYear, LaterYear}

\* the loop that ends at its first year
NoRemainingYears(all_data, found) == all_data

\* lines 889-897 and 1004: the year after LoadYear is skipped when its file is
\* missing, and loaded otherwise
RemainingYears(all_data, found) ==
    IF LaterYear \in found
    THEN ODSet(all_data, LaterYear,
               ODSet(EmptyOD, LaterRace, LoadedRace(LaterYear, LaterRace, 2, 1, 1)))
    ELSE all_data

InitProcess ==
    /\ pc = "load"
    /\ \/ /\ office_df \in UNION {[1..n -> OfficeRows] : n \in 0..MaxRows}
          /\ files_found = {LoadYear}
          /\ official_file = 0
          /\ official_df = <<>>
       \/ /\ office_df \in OfficeSamples
          /\ files_found = {LoadYear}
          /\ official_file \in {2012, 2024}
          /\ official_df \in UNION {[1..n -> OfficialRows] : n \in 1..MaxOfficialRows}
       \/ /\ files_found \in SUBSET ElectionYears \ {{LoadYear}}
          /\ office_df \in IF LoadYear \in files_found THEN OfficeSamples ELSE {<<>>}
          /\ official_file = 0
          /\ official_df = <<>>
    /\ NoReport
    /\ NoOther
    /\ idx = 0
    /\ county_results = EmptyOD
    /\ election_data = EmptyOD
    /\ file = EmptyDoc
    /\ script = 0
    /\ csv_df = <<>>
    /\ csv_aggregated = EmptyDict
    /\ file_before = EmptyDoc
    /\ file_first = EmptyDoc
    /\ merges = 0

report_vars == <<margin_pct, competitiveness, county_trends, flipped, statewide, other_vars>>

official_vars == <<official_file, official_df>>

merge_vars == <<script, csv_df, csv_aggregated, file_before, file_first, merges, report_vars>>

\* lines 895-897: the file of the year is missing, a warning is printed and the
\* loop goes on with the next year
MissingYear ==
    /\ pc = "load"
    /\ LoadYear \notin files_found
    /\ election_data' = RemainingYears(election_data, files_found)
    /\ pc' = "loaded"
    /\ UNCHANGED <<office_df, idx, county_results, file, merge_vars, official_vars>>

\* lines 914-916: a race without rows is left out of the year
SkipRace ==
    /\ pc = "load"
    /\ LoadYear \in files_found
    /\ Len(office_df) = 0
    /\ election_data' = RemainingYears(ODSet(election_data, LoadYear, EmptyOD), files_found)
    /\ pc' = "loaded"
    /\ UNCHANGED <<office_df, idx, county_results, file, merge_vars, official_vars>>

\* lines 935-977: one iteration of the loop over the rows of the race
LoadRow ==
    /\ pc = "load"
    /\ LoadYear \in files_found
    /\ idx < Len(office_df)
    /\ county_results' =
           LoadStep(county_results, office_df[idx + 1], office_df, LoadYear, LoadRace)
    /\ idx' = idx + 1
    /\ UNCHANGED <<pc, office_df, election_data, file, merge_vars, official_vars>>

\* lines 979-1005: margins of every county, then all_data[year] = year_results
ComputeMargins ==
    /\ pc = "load"
    /\ Len(office_df) > 0
    /\ idx = Len(office_df)
    /\ county_results' = AllMargins(county_results)
    /\ election_data' =
           RemainingYears(
               ODSet(election_data, LoadYear, ODSet(EmptyOD, LoadRace, county_results')),
               files_found)
    /\ pc' = "loaded"
    /\ UNCHANGED <<office_df, idx, file, merge_vars, official_vars>>

\* main, lines 1157-1201: unless nothing was loaded, the official returns are
\* loaded and merged into election_data
MergeOfficial ==
    /\ pc = "loaded"
    /\ election_data.keys # <<>>
    /\ election_data' = AfterStatewide2024(election_data, official_file, official_df)
    /\ pc' = "merged"
    /\ UNCHANGED <<office_df, idx, county_results, file, merge_vars, official_vars>>

\* main, line 1204: the document is written
CreateOutputJson ==
    /\ pc = "merged"
    /\ file' = create_output_json(election_data)
    /\ pc' = "written"
    /\ UNCHANGED <<office_df, idx, county_results, election_data, merge_vars,
                   official_vars>>


----------------------------------------------------------------------------
(* The JSON file and the dict json.load makes of it *)

\* A member name of results_by_year is the decimal text of a year; the keys of
\* the dict in memory are such texts or, where a script uses one, an int.
StrKey(y) == <<"str", y>>
IntKey(y) == <<"int", y>>

\* json.load: a member name that occurs again replaces the value read before
RECURSIVE LoadMembers(_, _)
LoadMembers(members, d) ==
    IF members = <<>> THEN d
    ELSE LoadMembers(Tail(members), ODSet(d, StrKey(Head(members)[1]), Head(members)[2]))

JsonLoad(f) ==
    [metadata |-> f.metadata,
     results_by_year |-> LoadMembers(f.results_by_year, EmptyOD)]

\* json.dump: every key is written in order, an int key as its decimal text
JsonDump(d) ==
    [metadata |-> d.metadata,
     results_by_year |->
         [i \in 1..Len(d.results_by_year.keys) |->
             <<d.results_by_year.keys[i][2],
               d.results_by_year.data[d.results_by_year.keys[i]]>>]]

\* list.sort()
RECURSIVE SortList(_)
SortList(l) ==
    IF l = <<>> THEN <<>>
    ELSE LET m == CHOOSE i \in 1..Len(l) :
                      /\ \A j \in 1..Len(l) : l[i] <= l[j]
                      /\ \A j \in 1..(i-1) : l[j] # l[i]
         IN  <<l[m]>> \o SortList(SubSeq(l, 1, m - 1) \o SubSeq(l, m + 1, Len(l)))

----------------------------------------------------------------------------
(* merge_official_2022_data.py and merge_official_2024_data.py *)


\* None
None == <<"None">>

\* "p in s" of two strings
Contains(s, p) == \E i \in 0..(Len(s) - Len(p)) : SubSeq(s, i + 1, i + Len(p)) = p

office_map_2022 ==
       "President of the United States" :> "president"
    @@ "United States Senator" :> "us_senate"
    @@ "Attorney General" :> "attorney_general"
    @@ "Auditor General" :> "auditor_general"
    @@ "State Treasurer" :> "state_treasurer"
    @@ "Governor" :> "governor"

office_map_2024 ==
       "President of the United States" :> "president"
    @@ "United States Senator" :> "us_senate"
    @@ "Attorney General" :> "attorney_general"
    @@ "Auditor General" :> "auditor_general"
    @@ "State Treasurer" :> "state_treasurer"

\* office.lower().replace(" ", "_") for the office names outside the maps
LowerUnderscore ==
       "Governor" :> "governor"
    @@ "Lieutenant Governor" :> "lieutenant_governor"

normalize_office_name(script_, office) ==
    Get(IF script_ = 2022 THEN office_map_2022 ELSE office_map_2024,
        office, LowerUnderscore[office])

full_office_2022 ==
       "president" :> "President of the United States"
    @@ "us_senate" :> "United States Senator"
    @@ "attorney_general" :> "Attorney General"
    @@ "auditor_general" :> "Auditor General"
    @@ "state_treasurer" :> "State Treasurer"
    @@ "governor" :> "Governor"

full_office_2024 ==
       "president" :> "President of the United States"
    @@ "us_senate" :> "United States Senator"
    @@ "attorney_general" :> "Attorney General"
    @@ "auditor_general" :> "Auditor General"
    @@ "state_treasurer" :> "State Treasurer"

\* office.title() for the categories outside the maps
TitleOfCategory ==
       "governor" :> "Governor"
    @@ "lieutenant_governor" :> "Lieutenant_Governor"

get_full_office_name(script_, office) ==
    Get(IF script_ = 2022 THEN full_office_2022 ELSE full_office_2024,
        office, TitleOfCategory[office])

\* pd.to_numeric(..., errors="coerce").fillna(0).astype(int)
CsvVotes(votes) == IF votes.t = "num" THEN votes.n ELSE 0

NewAggregated ==
    [dem_votes |-> 0, rep_votes |-> 0, other_votes |-> 0,
     dem_candidate |-> None, rep_candidate |-> None]

\* aggregate_csv_data, lines 88-91: an empty cell is read as NaN, a float, and
\* .title() or "in" on it raises; nothing catches the exception
CsvRowRaises(row) ==
    row.county_name = <<>> \/ row.party_name = <<>> \/ row.candidate_name = <<>>

\* aggregate_csv_data, one row
AggregateRow(aggregated, row, script_) ==
    LET county == Title(row.county_name)
        office == normalize_office_name(script_, row.office_name)
        party == row.party_name
        candidate == Title(row.candidate_name)
        votes == CsvVotes(row.votes)
        counties == Get(aggregated, office, EmptyDict)
        old == Get(counties, county, NewAggregated)
        new == IF Contains(party, sDemocratic)
               THEN [old EXCEPT !.dem_votes = @ + votes, !.dem_candidate = candidate]
               ELSE IF Contains(party, sRepublican)
               THEN [old EXCEPT !.rep_votes = @ + votes, !.rep_candidate = candidate]
               ELSE [old EXCEPT !.other_votes = @ + votes]
    IN  (office :> ((county :> new) @@ counties)) @@ aggregated

RECURSIVE AggregateFrom(_, _, _, _)
AggregateFrom(rows, i, script_, aggregated) ==
    IF i > Len(rows) THEN aggregated
    ELSE AggregateFrom(rows, i + 1, script_, AggregateRow(aggregated, rows[i], script_))

\* aggregate_csv_data: aggregated[year], office -> county -> sums
aggregate_csv_data(rows, script_) == AggregateFrom(rows, 1, script_, EmptyDict)

\* format_result_entry returns None
NoEntry(data) == data.dem_votes + data.rep_votes = 0

\* format_result_entry
format_result_entry(county_name, office, data, script_) ==
    LET dem_votes == data.dem_votes
        rep_votes == data.rep_votes
        other_votes == data.other_votes
        total_votes == dem_votes + rep_votes + other_votes
        two_party_total == dem_votes + rep_votes
        margin == dem_votes - rep_votes
    IN  [county |-> county_name,
         contest |-> get_full_office_name(script_, office),
         year |-> script_,
         dem_candidate |-> data.dem_candidate,
         rep_candidate |-> data.rep_candidate,
         dem_votes |-> dem_votes,
         rep_votes |-> rep_votes,
         other_votes |-> other_votes,
         total_votes |-> total_votes,
         two_party_total |-> two_party_total,
         margin |-> margin,
         margin_pct |-> IF two_party_total > 0
                        THEN RoundPct(margin, two_party_total) ELSE 0,
         winner |-> WinnerWithTie(dem_votes, rep_votes),
         competitiveness |->
             (LET margin_pct_ == IF two_party_total > 0
                                 THEN [num |-> 100 * margin, den |-> two_party_total]
                                 ELSE [num |-> 0, den |-> 1]
              IN  IF script_ = 2022 THEN get_competitiveness_2022(margin_pct_)
                  ELSE get_competitiveness_2024(margin_pct_)),
         all_parties |-> (sDEM :> dem_votes @@ sREP :> rep_votes @@ sOTHER :> other_votes)]

\* merge_data, the loop over the offices: the section built from the CSV
BuiltSection(aggregated, script_) ==
    [office \in DOMAIN aggregated |->
        (<<office, script_>> :>
            [contest_name |-> get_full_office_name(script_, office),
             results |->
                 [county \in {c \in DOMAIN aggregated[office] :
                                  ~NoEntry(aggregated[office][c])} |->
                     format_result_entry(county, office, aggregated[office][county],
                                         script_)]])]

\* the year appended to metadata.years on every run
EnsureYearAlways(years, y) == SortList(Append(years, y))

\* "Ensure <year> is in metadata": appended and sorted only when missing
EnsureYear(years, y) ==
    IF y \in Range(years) THEN years ELSE SortList(Append(years, y))

\* merge_official_2022_data.merge_data, lines 169-198: the loaded data with
\* the year's section replaced
merged_2022(data, aggregated) ==
    LET metadata == [data.metadata EXCEPT !.years = EnsureYear(@, 2022)]
        cleared == ODSet(data.results_by_year, StrKey(2022), EmptyDict)
        built == ODSet(cleared, StrKey(2022), BuiltSection(aggregated, 2022))
    IN  [metadata |-> metadata, results_by_year |-> built]

\* merge_official_2022_data.merge_data, from json.load to json.dump
merge_data_2022(f, aggregated) == JsonDump(merged_2022(JsonLoad(f), aggregated))

\* merge_official_2024_data.merge_data, lines 169-214: the year's section is
\* looked up and stored under the int 2024
merged_2024(data, aggregated) ==
    LET metadata == [data.metadata EXCEPT !.years = EnsureYear(@, 2024)]
        cleared == ODSet(data.results_by_year, IntKey(2024), EmptyDict)
        built == ODSet(cleared, IntKey(2024), BuiltSection(aggregated, 2024))
    IN  [metadata |-> metadata, results_by_year |-> built]

\* merge_official_2024_data.merge_data, from json.load to json.dump
merge_data_2024(f, aggregated) == JsonDump(merged_2024(JsonLoad(f), aggregated))


\* the rows an official county-level CSV can hold
PartyCandidate(party_name) ==
    IF party_name = sDemocratic THEN sANNLEE
    ELSE IF party_name = sRepublican THEN sBoRay ELSE sCyOrr

CsvRow(c, o, p, v) ==
    [county_name |-> c, office_name |-> o, party_name |-> p, votes |-> Num(v),
     candidate_name |-> PartyCandidate(p)]

CsvRows ==
    {CsvRow(sERIE, o, p, 1) : o \in {"United States Senator", "Governor"},
                              p \in {sDemocratic, sRepublican, sLibertarian}}
    \cup {CsvRow(sERIE, "United States Senator", p, MaxVotes) :
              p \in {sDemocratic, sRepublican}}
    \cup {CsvRow(sMCKEAN, "Governor", sDemocratic, 1),
          CsvRow(sMCKEAN, "United States Senator", sRepublican, 1)}
    \cup {[county_name |-> sErie, office_name |-> "United States Senator",
           party_name |-> sDemocratic, votes |-> Num(1), candidate_name |-> sAnnLee],
          [county_name |-> sERIE, office_name |-> "Governor",
           party_name |-> sRepublican, votes |-> BadText, candidate_name |-> sBoRay],
          [county_name |-> sERIE, office_name |-> "Governor",
           party_name |-> sDemocratic, votes |-> Num(1), candidate_name |-> <<>>]}

\* documents process_openelections writes: one with a 2020 section only, one
\* with 2022 and 2024 sections
Doc2020 ==
    create_output_json(
        ODSet(EmptyOD, 2020, ODSet(EmptyOD, "President", LoadedRace(2020, "President", 2, 1, 1))))

Doc2022And2024 ==
    create_output_json(
        ODSet(ODSet(EmptyOD, 2022,
                    ODSet(ODSet(EmptyOD, "Governor", LoadedRace(2022, "Governor", 2, 1, 1)),
                          "U.S. Senate", LoadedRace(2022, "U.S. Senate", 1, 2, 1))),
              2024,
              ODSet(ODSet(EmptyOD, "President", LoadedRace(2024, "President", 1, 2, 1)),
                    "U.S. Senate", LoadedRace(2024, "U.S. Senate", 2, 1, 2))))

InitialDocs == {EmptyDoc, Doc2020, Doc2022And2024}

\* the official CSV of a close race
CsvSamples ==
    {<<CsvRow(sERIE, "United States Senator", sDemocratic, 101),
       CsvRow(sERIE, "United States Senator", sRepublican, 100)>>}

InitMerge ==
    /\ pc = "start"
    /\ files_found = {}
    /\ script \in {2022, 2024}
    /\ csv_df \in UNION {[1..n -> CsvRows] : n \in 0..MaxCsvRows} \cup CsvSamples
    /\ csv_aggregated = EmptyDict
    /\ file \in InitialDocs
    /\ file_before = file
    /\ file_first = file
    /\ merges = 0
    /\ office_df = <<>>
    /\ idx = 0
    /\ county_results = EmptyOD
    /\ election_data = EmptyOD
    /\ official_file = 0
    /\ official_df = <<>>
    /\ NoReport
    /\ NoOther

process_vars == <<office_df, idx, county_results, election_data, official_vars>>

\* merge_data, lines 158-163: the CSV is read and aggregated
AggregateCsv ==
    /\ pc = "start"
    /\ merges < MaxMerges
    /\ IF \E i \in 1..Len(csv_df) : CsvRowRaises(csv_df[i])
       THEN /\ pc' = "crashed"
            /\ UNCHANGED csv_aggregated
       ELSE /\ csv_aggregated' = aggregate_csv_data(csv_df, script)
            /\ pc' = "aggregated"
    /\ UNCHANGED <<file, script, csv_df, file_before, file_first, merges, process_vars,
                   report_vars>>

\* merge_official_2022_data.merge_data, lines 165-202
MergeData2022 ==
    /\ pc = "aggregated"
    /\ script = 2022
    /\ file' = merge_data_2022(file, csv_aggregated)
    /\ file_first' = IF merges = 0 THEN file' ELSE file_first
    /\ merges' = merges + 1
    /\ pc' = "start"
    /\ UNCHANGED <<script, csv_df, csv_aggregated, file_before, process_vars, report_vars>>

\* merge_official_2024_data.merge_data, lines 165-218
MergeData2024 ==
    /\ pc = "aggregated"
    /\ script = 2024
    /\ file' = merge_data_2024(file, csv_aggregated)
    /\ file_first' = IF merges = 0 THEN file' ELSE file_first
    /\ merges' = merges + 1
    /\ pc' = "start"
    /\ UNCHANGED <<script, csv_df, csv_aggregated, file_before, process_vars, report_vars>>

----------------------------------------------------------------------------
(* get_competitiveness called on its own *)

\* the margins given to get_competitiveness: every quarter of a percent up to
\* MaxPct percent either way, and a margin of all the votes
MarginInputs ==
    {[num |-> n, den |-> 4] : n \in (0 - 4 * MaxPct)..(4 * MaxPct)}
    \cup {[num |-> -100, den |-> 1], [num |-> 100, den |-> 1]}

InitClassify ==
    /\ pc = "classify"
    /\ files_found = {}
    /\ margin_pct \in MarginInputs
    /\ competitiveness = EmptyDict
    /\ county_trends = EmptyOD
    /\ flipped = <<>>
    /\ statewide = [contest_type |-> "", entries |-> <<>>]
    /\ office_df = <<>>
    /\ idx = 0
    /\ county_results = EmptyOD
    /\ election_data = EmptyOD
    /\ official_file = 0
    /\ official_df = <<>>
    /\ file = EmptyDoc
    /\ script = 0
    /\ csv_df = <<>>
    /\ csv_aggregated = EmptyDict
    /\ file_before = EmptyDoc
    /\ file_first = EmptyDoc
    /\ merges = 0
    /\ NoOther

pipeline_vars ==
    <<office_df, idx, county_results, election_data, official_file, official_df, file,
      script, csv_df, csv_aggregated, file_before, file_first, merges, other_vars>>

\* process_openelections.get_competitiveness is called
GetCompetitiveness ==
    /\ pc = "classify"
    /\ competitiveness' = [script |-> "process", result |-> get_competitiveness(margin_pct)]
    /\ pc' = "classified"
    /\ UNCHANGED <<margin_pct, county_trends, flipped, statewide, pipeline_vars>>

\* merge_official_2022_data.get_competitiveness is called
GetCompetitiveness2022 ==
    /\ pc = "classify"
    /\ competitiveness' = [script |-> "2022", result |-> get_competitiveness_2022(margin_pct)]
    /\ pc' = "classified"
    /\ UNCHANGED <<margin_pct, county_trends, flipped, statewide, pipeline_vars>>

\* merge_official_2024_data.get_competitiveness is called
GetCompetitiveness2024 ==
    /\ pc = "classify"
    /\ competitiveness' = [script |-> "2024", result |-> get_competitiveness_2024(margin_pct)]
    /\ pc' = "classified"
    /\ UNCHANGED <<margin_pct, county_trends, flipped, statewide, pipeline_vars>>

----------------------------------------------------------------------------
(* generate_detailed_findings.py *)

\* sorted(data, key=lambda x: x['year']): a stable sort, the record put behind
\* the records of the same or an earlier year
RECURSIVE InsertByYear(_, _)
InsertByYear(sorted_data, record) ==
    IF sorted_data = <<>> THEN <<record>>
    ELSE IF Head(sorted_data).year <= record.year
    THEN <<Head(sorted_data)>> \o InsertByYear(Tail(sorted_data), record)
    ELSE <<record>> \o sorted_data

RECURSIVE SortFrom(_, _, _)
SortFrom(data, i, sorted_data) ==
    IF i > Len(data) THEN sorted_data
    ELSE SortFrom(data, i + 1, InsertByYear(sorted_data, data[i]))

\* the records left in the order they were supplied
AsSupplied(data) == data

\* lines 47, 61: sorted(data, key=lambda x: x['year'])
SortedByYear(data) == SortFrom(data, 1, <<>>)

\* calculate_swing
calculate_swing(county_data) ==
    IF Len(county_data) < 2 THEN 0
    ELSE LET sorted_data == SortedByYear(county_data)
         IN  sorted_data[Len(sorted_data)].margin_pct - sorted_data[1].margin_pct

Abs(x) == IF x < 0 THEN 0 - x ELSE x

\* flipped.sort(key=lambda x: abs(x[1]['swing']), reverse=True): a stable sort
RECURSIVE InsertBySwing(_, _)
InsertBySwing(sorted_flipped, entry) ==
    IF sorted_flipped = <<>> THEN <<entry>>
    ELSE IF Abs(Head(sorted_flipped)[2].swing) >= Abs(entry[2].swing)
    THEN <<Head(sorted_flipped)>> \o InsertBySwing(Tail(sorted_flipped), entry)
    ELSE <<entry>> \o sorted_flipped

RECURSIVE SortBySwingFrom(_, _, _)
SortBySwingFrom(entries, i, sorted_flipped) ==
    IF i > Len(entries) THEN sorted_flipped
    ELSE SortBySwingFrom(entries, i + 1, InsertBySwing(sorted_flipped, entries[i]))

\* identify_flipped_counties, lines 57-75: the loop over the counties
RECURSIVE FlippedFrom(_, _, _)
FlippedFrom(county_trends_, i, flipped_) ==
    IF i > Len(county_trends_.keys) THEN flipped_
    ELSE LET county == county_trends_.keys[i]
             data == county_trends_.data[county]
             sorted_data == SortedByYear(data)
             earliest == sorted_data[1]
             latest == sorted_data[Len(sorted_data)]
         IN  FlippedFrom(county_trends_, i + 1,
                 IF Len(data) < 2 \/ earliest.winner = latest.winner THEN flipped_
                 ELSE Append(flipped_,
                          <<county,
                            [from_party |-> earliest.winner,
                             to_party |-> latest.winner,
                             swing |-> calculate_swing(sorted_data),
                             earliest_margin |-> earliest.margin_pct,
                             latest_margin |-> latest.margin_pct,
                             earliest_year |-> earliest.year,
                             latest_year |-> latest.year]>>))

\* identify_flipped_counties
identify_flipped_counties(county_trends_) ==
    SortBySwingFrom(FlippedFrom(county_trends_, 1, <<>>), 1, <<>>)

\* lines 115-118: a field of the county results added up
RECURSIVE TotalOf(_, _)
TotalOf(results, field) ==
    IF DOMAIN results = {} THEN 0
    ELSE LET county == CHOOSE c \in DOMAIN results : TRUE
         IN  Get(results[county], field, 0)
             + TotalOf([c \in DOMAIN results \ {county} |-> results[c]], field)

\* num / den * 100 if den > 0 else 0, kept as an exact quotient
PctOrZero(num, den) ==
    IF den > 0 THEN [num |-> 100 * num, den |-> den] ELSE [num |-> 0, den |-> 1]

\* the statewide margin as the mean of the counties' margin_pct, which are
\* hundredths of a percent
AveragedMarginPct(margin, two_party_total, results) ==
    IF DOMAIN results = {} THEN [num |-> 0, den |-> 1]
    ELSE [num |-> TotalOf(results, "margin_pct"), den |-> 100 * Cardinality(DOMAIN results)]

\* line 125: margin_pct = (margin / two_party_total * 100) if two_party_total > 0 else 0
StatewideMarginPct(margin, two_party_total, results) == PctOrZero(margin, two_party_total)

\* analyze_statewide_trends, lines 109-141: the entry of one contest; the
\* candidate names, taken from the county read last, are left out
StatewideEntry(year, contest_data) ==
    LET results == contest_data.results
        dem_total == TotalOf(results, "dem_votes")
        rep_total == TotalOf(results, "rep_votes")
        other_total == TotalOf(results, "other_votes")
        total == dem_total + rep_total + other_total
        two_party_total == dem_total + rep_total
        margin == dem_total - rep_total
    IN  [year |-> year,
         contest |-> contest_data.contest_name,
         dem_votes |-> dem_total,
         rep_votes |-> rep_total,
         other_votes |-> other_total,
         total_votes |-> total,
         dem_pct |-> PctOrZero(dem_total, two_party_total),
         rep_pct |-> PctOrZero(rep_total, two_party_total),
         margin |-> margin,
         margin_pct |-> StatewideMarginPct(margin, two_party_total, results),
         winner |-> WinnerOfMargin(margin)]

\* the entries of the contests of one category, one after the other
RECURSIVE ContestEntries(_, _)
ContestEntries(year, contests_of_type) ==
    IF DOMAIN contests_of_type = {} THEN <<>>
    ELSE LET contest_key == CHOOSE k \in DOMAIN contests_of_type : TRUE
         IN  <<StatewideEntry(year, contests_of_type[contest_key])>>
             \o ContestEntries(year, [k \in DOMAIN contests_of_type \ {contest_key} |->
                                         contests_of_type[k]])

\* analyze_statewide_trends, lines 106-108: the years in sorted order
RECURSIVE StatewideFrom(_, _, _, _)
StatewideFrom(results_by_year, years, i, contest_type) ==
    IF i > Len(years) THEN <<>>
    ELSE LET contests == results_by_year[StrKey(years[i])]
         IN  (IF contest_type \in DOMAIN contests
              THEN ContestEntries(years[i], contests[contest_type])
              ELSE <<>>)
             \o StatewideFrom(results_by_year, years, i + 1, contest_type)

\* analyze_statewide_trends
analyze_statewide_trends(data, contest_type) ==
    SortedByYear(StatewideFrom(data.results_by_year.data,
                               SortedSeq({k[2] : k \in DOMAIN data.results_by_year.data}),
                               1, contest_type))

\* analyze_county_trends, lines 28-38: the data point of one county result;
\* result['competitiveness']['category'] is read
TrendPoint(year, result) ==
    [year |-> year,
     margin_pct |-> result.margin_pct,
     winner |-> result.winner,
     category |-> result.competitiveness.category,
     dem_votes |-> result.dem_votes,
     rep_votes |-> result.rep_votes,
     total_votes |-> result.total_votes,
     dem_candidate |-> result.dem_candidate,
     rep_candidate |-> result.rep_candidate]

\* lines 27-38: the results of one contest appended, county by county; the
\* order of the counties within a contest is not kept by the model of the file
RECURSIVE TrendsOfResults(_, _, _)
TrendsOfResults(county_trends_, year, results) ==
    IF DOMAIN results = {} THEN county_trends_
    ELSE LET county == CHOOSE c \in DOMAIN results : TRUE
             before == Get(county_trends_.data, county, <<>>)
         IN  TrendsOfResults(
                 ODSet(county_trends_, county, Append(before, TrendPoint(year, results[county]))),
                 year, [c \in DOMAIN results \ {county} |-> results[c]])

\* line 26: the contests of the category of one year
RECURSIVE TrendsOfContests(_, _, _)
TrendsOfContests(county_trends_, year, contests_of_type) ==
    IF DOMAIN contests_of_type = {} THEN county_trends_
    ELSE LET contest_key == CHOOSE k \in DOMAIN contests_of_type : TRUE
         IN  TrendsOfContests(
                 TrendsOfResults(county_trends_, year, contests_of_type[contest_key].results),
                 year,
                 [k \in DOMAIN contests_of_type \ {contest_key} |-> contests_of_type[k]])

\* lines 23-25: the years in the order of the file
RECURSIVE TrendsFrom(_, _, _, _)
TrendsFrom(results_by_year, i, contest_type, county_trends_) ==
    IF i > Len(results_by_year.keys) THEN county_trends_
    ELSE LET year == results_by_year.keys[i]
             contests == results_by_year.data[year]
         IN  TrendsFrom(results_by_year, i + 1, contest_type,
                 IF contest_type \in DOMAIN contests
                 THEN TrendsOfContests(county_trends_, year[2], contests[contest_type])
                 ELSE county_trends_)

\* analyze_county_trends: the first value returned
analyze_county_trends(data, contest_type) ==
    TrendsFrom(data.results_by_year, 1, contest_type, EmptyOD)

\* analyze_county_trends: the second value returned, sorted(years_available)
years_available(data, contest_type) ==
    SortedSeq({year[2] : year \in {k \in Range(data.results_by_year.keys) :
                                      contest_type \in DOMAIN data.results_by_year.data[k]}})

\* line 32: result['competitiveness']['category'] of a record without the key
\* raises KeyError
TrendsRaise(data, contest_type) ==
    \E year \in Range(data.results_by_year.keys) :
        /\ contest_type \in DOMAIN data.results_by_year.data[year]
        /\ \E contest_key \in DOMAIN data.results_by_year.data[year][contest_type] :
               \E result \in Range(data.results_by_year.data[year][contest_type][contest_key].results) :
                   "category" \notin DOMAIN result.competitiveness

\* what aggregate_csv_data holds for a county with these votes
VoteData(votes) ==
    [dem_votes |-> votes[1], rep_votes |-> votes[2], other_votes |-> votes[3],
     dem_candidate |-> Title(sANNLEE), rep_candidate |-> Title(sBoRay)]

\* the document merge_official_2022_data writes for U.S. Senate returns of two counties
StatewideDoc(erie, mckean) ==
    merge_data_2022(EmptyDoc,
        "us_senate" :> (Title(sERIE) :> VoteData(erie) @@ Title(sMCKEAN) :> VoteData(mckean)))

\* the document merge_official_2024_data writes for presidential returns of
\* 6000/4000 in one county and 3000/7000 in the other
ScenarioDoc ==
    merge_data_2024(EmptyDoc,
        "president" :> (Title(sERIE) :> VoteData(<<6000, 4000, 0>>)
                        @@ Title(sMCKEAN) :> VoteData(<<3000, 7000, 0>>)))

VoteTriples == (0..MaxVotes) \X (0..MaxVotes) \X (0..MaxVotes)

ReportDocs ==
    {StatewideDoc(erie, mckean) : erie, mckean \in VoteTriples}
    \cup {ScenarioDoc, Doc2020, Doc2022And2024}

\* the data points of one county: one record for each of some years, in any order
TrendYears == {2016, 2020, 2024}

TrendRecords ==
    {[year |-> y, margin_pct |-> m, winner |-> w] :
        y \in TrendYears, m \in {-150, 250}, w \in {"DEM", "REP", "TIE"}}

TrendLists ==
    {data \in UNION {[1..n -> TrendRecords] : n \in 0..Cardinality(TrendYears)} :
        \A i, j \in 1..Len(data) : i # j => data[i].year # data[j].year}

\* a second county whose winner changed
BerksTrend ==
    <<[year |-> 2024, margin_pct |-> -1200, winner |-> "REP"],
      [year |-> 2016, margin_pct |-> 300, winner |-> "DEM"]>>

TrendInputs ==
    {ODSet(EmptyOD, sErie, data) : data \in TrendLists}
    \cup {ODSet(ODSet(EmptyOD, sBerks, BerksTrend), sErie, data) : data \in TrendLists}

NoPipeline ==
    /\ files_found = {}
    /\ office_df = <<>>
    /\ idx = 0
    /\ county_results = EmptyOD
    /\ election_data = EmptyOD
    /\ official_file = 0
    /\ official_df = <<>>
    /\ script = 0
    /\ csv_df = <<>>
    /\ csv_aggregated = EmptyDict
    /\ file_before = EmptyDoc
    /\ file_first = EmptyDoc
    /\ merges = 0

InitReport ==
    /\ \/ /\ pc = "report"
          /\ file \in ReportDocs
          /\ county_trends = EmptyOD
       \/ /\ pc = "trends"
          /\ file = EmptyDoc
          /\ county_trends \in TrendInputs
    /\ margin_pct = [num |-> 0, den |-> 1]
    /\ competitiveness = EmptyDict
    /\ flipped = <<>>
    /\ statewide = [contest_type |-> "", entries |-> <<>>]
    /\ NoPipeline
    /\ NoOther

\* identify_flipped_counties is called with county_trends
IdentifyFlippedCounties ==
    /\ pc = "trends"
    /\ flipped' = identify_flipped_counties(county_trends)
    /\ pc' = "flipped"
    /\ UNCHANGED <<margin_pct, competitiveness, county_trends, statewide, pipeline_vars>>

\* analyze_county_trends is called with the data of a file, also of the file
\* process_openelections has just written
AnalyzeCountyTrends ==
    /\ pc \in {"report", "written"}
    /\ \E contest_type \in {"president", "us_senate"} :
           IF TrendsRaise(JsonLoad(file), contest_type)
           THEN /\ pc' = "key_error"
                /\ UNCHANGED <<county_trends, trend_years>>
           ELSE /\ county_trends' = analyze_county_trends(JsonLoad(file), contest_type)
                /\ trend_years' = years_available(JsonLoad(file), contest_type)
                /\ pc' = "trended"
    /\ UNCHANGED <<margin_pct, competitiveness, flipped, statewide, raw, normalized,
                   files_found, fetch, requests, runs, writes, torn, office_df, idx, county_results, election_data, official_file,
                   official_df, file, script, csv_df, csv_aggregated, file_before,
                   file_first, merges>>

\* analyze_statewide_trends is called with the data of the file
AnalyzeStatewideTrends ==
    /\ pc = "report"
    /\ \E contest_type \in {"president", "us_senate"} :
           statewide' = [contest_type |-> contest_type,
                         entries |-> analyze_statewide_trends(JsonLoad(file), contest_type)]
    /\ pc' = "analyzed"
    /\ UNCHANGED <<margin_pct, competitiveness, county_trends, flipped, pipeline_vars>>

----------------------------------------------------------------------------
(* The normalize_* functions of process_openelections called on their own *)

\* every string of at most n characters over the alphabet
Strings(alphabet, n) == UNION {[1..k -> alphabet] : k \in 0..n}

sMcKEANCounty == <<"M","c","K","E","A","N"," ","C","o","u","n","t","y">>
sPhiladelphia == <<" "," ","p","h","i","l","a","d","e","l","p","h","i","a"," "," ">>

\* county names: short strings of letters and blanks, alone, with blanks
\* around them and followed by " County"
CountyInputs ==
    LET cores == Strings({"M", "c", "k", "E", " "}, MaxChars)
    IN  cores
        \cup {core \o SpaceCounty : core \in cores}
        \cup {<<" ">> \o core \o SpaceCounty \o <<" ">> : core \in cores}
        \cup {sMcKEANCounty, sPhiladelphia}

sWhig == <<"W","h","i","g">>

\* party names: the spellings of the table in the case given, in upper and in
\* lower case, with blanks around them, and names the table does not hold
PartyInputs ==
    UNION {{key, Upper(key), Lower(key), <<" ">> \o key \o <<" ">>} :
              key \in DOMAIN party_mapping}
    \cup {<<>>, <<" ">>, sWhig, Upper(sWhig)}

sBernieSanders == <<"B","e","r","n","i","e"," ","S","a","n","d","e","r","s">>
sRandyPoe == <<"R","A","N","D","Y"," ","P","O","E">>
sAlGoreJoe == <<"A","l"," ","G","o","r","e","/","J","o","e">>
sAnnAndBo == <<"A","n","n"," ","L","e","e"," ","a","n","d"," ","B","o"," ","R","a","y">>
sAnnAmpBo == <<"A","N","N"," ","L","E","E"," ","&"," ","B","O"," ","R","A","Y">>

CandidateInputs ==
    {sBernieSanders, sRandyPoe, sAlGoreJoe, sAnnAndBo, sAnnAmpBo, sANNLEE, sBoRay,
     sDonaldJTrump, sJohnFKerry, <<>>, <<" ">>}

NormalizeInputs ==
    {[fn |-> "county", arg |-> a, office_name |-> ""] : a \in CountyInputs}
    \cup {[fn |-> "party", arg |-> a, office_name |-> ""] : a \in PartyInputs}
    \cup {[fn |-> "candidate", arg |-> a, office_name |-> o] :
             a \in CandidateInputs, o \in {"President", "Governor", "Auditor General"}}

InitNormalize ==
    /\ pc = "normalize"
    /\ raw \in NormalizeInputs
    /\ normalized = <<>>
    /\ trend_years = <<>>
    /\ fetch = [race |-> 0, race_id |-> 0, url |-> 0]
    /\ requests = <<>>
    /\ NoRuns
    /\ file = EmptyDoc
    /\ NoReport
    /\ NoPipeline

normalize_unchanged ==
    <<raw, trend_years, files_found, fetch, requests, runs, writes, torn, margin_pct, competitiveness, county_trends, flipped, statewide,
      office_df, idx, county_results, election_data, official_file, official_df, file,
      script, csv_df, csv_aggregated, file_before, file_first, merges>>

\* normalize_county_name is called
NormalizeCountyName ==
    /\ pc = "normalize"
    /\ raw.fn = "county"
    /\ normalized' = normalize_county_name(raw.arg)
    /\ pc' = "normalized"
    /\ UNCHANGED normalize_unchanged

\* normalize_party_code is called
NormalizePartyCode ==
    /\ pc = "normalize"
    /\ raw.fn = "party"
    /\ normalized' = normalize_party_code(raw.arg)
    /\ pc' = "normalized"
    /\ UNCHANGED normalize_unchanged

\* normalize_candidate_name is called
NormalizeCandidateName ==
    /\ pc = "normalize"
    /\ raw.fn = "candidate"
    /\ normalized' = normalize_candidate_name(raw.arg, raw.office_name)
    /\ pc' = "normalized"
    /\ UNCHANGED normalize_unchanged

----------------------------------------------------------------------------
(* fetch_missing_counties.py *)

\* lines 115-119: the three races of the main block
races == <<"Auditor General", "State Treasurer", "Attorney General">>

\* lines 24-28: the three addresses tried for a race_id; the third has no race_id in it
api_urls(race_id) ==
    <<[endpoint |-> "electionData", race_id |-> race_id],
      [endpoint |-> "SummaryResults", race_id |-> race_id],
      [endpoint |-> "Summary", race_id |-> 0]>>

\* lines 121-126: the loops after fetch_2024_county_data has returned; a
\* result that is not empty ends the loop over the race ids of the race
AfterFetch(position, result) ==
    IF result = "data" \/ position.race_id = MaxRaceId
    THEN [race |-> position.race + 1, race_id |-> 1, url |-> 1]
    ELSE [race |-> position.race, race_id |-> position.race_id + 1, url |-> 1]

\* lines 37-66: after one request; an answer returns from the function, an
\* exception goes on to the next address, and None is returned after the last
AfterRequest(position, outcome) ==
    CASE outcome = "data" -> AfterFetch(position, "data")
      [] outcome = "empty" -> AfterFetch(position, "empty")
      [] outcome = "failed" ->
             IF position.url < Len(api_urls(position.race_id))
             THEN [position EXCEPT !.url = @ + 1]
             ELSE AfterFetch(position, "None")

InitFetch ==
    /\ pc = "fetch"
    /\ fetch = [race |-> 1, race_id |-> 1, url |-> 1]
    /\ requests = <<>>
    /\ NoRuns
    /\ raw = [fn |-> "", arg |-> <<>>, office_name |-> ""]
    /\ normalized = <<>>
    /\ trend_years = <<>>
    /\ file = EmptyDoc
    /\ NoReport
    /\ NoPipeline

\* fetch_2024_county_data, lines 37-66: requests.get of one address, which
\* answers with JSON data, with an empty JSON object, or fails (timeout, status,
\* malformed JSON)
Request ==
    /\ pc = "fetch"
    /\ fetch.race <= Len(races)
    /\ \E outcome \in {"data", "empty", "failed"} :
           /\ requests' = Append(requests, [url |-> api_urls(fetch.race_id)[fetch.url],
                                            outcome |-> outcome])
           /\ fetch' = AfterRequest(fetch, outcome)
    /\ UNCHANGED <<pc, runs, writes, torn, raw, normalized, trend_years, files_found, margin_pct,
                   competitiveness, county_trends, flipped, statewide,
                   office_df, idx, county_results, election_data, official_file,
                   official_df, file, script, csv_df, csv_aggregated, file_before,
                   file_first, merges>>

\* lines 128-130: the races are done, the advice is printed
FetchDone ==
    /\ pc = "fetch"
    /\ fetch.race > Len(races)
    /\ pc' = "fetched"
    /\ UNCHANGED <<fetch, requests, runs, writes, torn, raw, normalized, trend_years,
                   files_found, margin_pct,
                   competitiveness, county_trends, flipped, statewide,
                   office_df, idx, county_results, election_data, official_file,
                   official_df, file, script, csv_df, csv_aggregated, file_before,
                   file_first, merges>>

----------------------------------------------------------------------------
(* normalize_candidate_names.py *)

\* str.split(c)
RECURSIVE SplitAt(_, _)
SplitAt(s, c) ==
    IF \E i \in 1..Len(s) : s[i] = c
    THEN LET i == CHOOSE k \in 1..Len(s) : s[k] = c /\ \A j \in 1..(k-1) : s[j] # c
         IN  <<SubSeq(s, 1, i - 1)>> \o SplitAt(SubSeq(s, i + 1, Len(s)), c)
    ELSE <<s>>

NotEmpty(s) == s # <<>>

\* str.split(): the blank-separated words
Words(s) == SelectSeq(SplitAt(s, " "), NotEmpty)

\* sep.join(parts)
RECURSIVE Join(_, _)
Join(parts, sep) ==
    IF parts = <<>> THEN <<>>
    ELSE IF Len(parts) = 1 THEN parts[1]
    ELSE parts[1] \o sep \o Join(Tail(parts), sep)

\* str.rstrip('.,')
RECURSIVE RStripPunctuation(_)
RStripPunctuation(s) ==
    IF s # <<>> /\ s[Len(s)] \in {".", ","}
    THEN RStripPunctuation(SubSeq(s, 1, Len(s) - 1))
    ELSE s

\* str.capitalize()
Capitalize(s) == [i \in 1..Len(s) |-> IF i = 1 THEN ToUpper(s[i]) ELSE ToLower(s[i])]

roman_numerals ==
    {<<"i">>, <<"i","i">>, <<"i","i","i">>, <<"i","v">>, <<"v">>, <<"v","i">>,
     <<"v","i","i">>, <<"v","i","i","i">>, <<"i","x">>, <<"x">>}

suffixes ==
    {<<"j","r">>, <<"s","r">>, <<"p","h",".","d">>, <<"p","h","d">>, <<"m","d">>,
     <<"d","d","s">>, <<"e","s","q">>}

\* normalize_name, lines 24-57: one part of the name
NormalizePart(part) ==
    LET clean_part == RStripPunctuation(part)
        suffix == Lower(clean_part)
    IN  IF Len(clean_part) = 1 /\ IsAlpha(clean_part[1])
        THEN Upper(clean_part) \o <<".">>
        ELSE IF suffix \in roman_numerals THEN Upper(clean_part)
        ELSE IF suffix \in suffixes
        THEN IF suffix \in {<<"j","r">>, <<"s","r">>, <<"e","s","q">>}
             THEN Title(suffix) \o <<".">>
             ELSE IF suffix \in {<<"p","h",".","d">>, <<"m","d">>, <<"d","d","s">>}
             THEN Upper(suffix)
             ELSE suffix
        ELSE IF \E i \in 1..Len(clean_part) : clean_part[i] = "-"
        THEN LET pieces == SplitAt(clean_part, "-")
             IN  Join([i \in 1..Len(pieces) |-> Capitalize(pieces[i])], <<"-">>)
        ELSE IF StartsWith(suffix, <<"m","c">>) /\ Len(clean_part) > 2
        THEN <<"M","c">> \o Capitalize(SubSeq(clean_part, 3, Len(clean_part)))
        ELSE IF StartsWith(suffix, <<"o","'">>) /\ Len(clean_part) > 2
        THEN <<"O","'">> \o Capitalize(SubSeq(clean_part, 3, Len(clean_part)))
        ELSE Capitalize(clean_part)

\* normalize_candidate_names.normalize_name
normalize_name(name) ==
    IF name = <<>>
       \/ Lower(name) \in {<<"u","n","k","n","o","w","n">>, <<"t","i","e">>,
                           <<"v","a","c","a","n","t">>}
    THEN name
    ELSE LET parts == Words(Strip(name))
         IN  JoinSplit(Join([i \in 1..Len(parts) |-> NormalizePart(parts[i])], <<" ">>))

\* normalize_json_candidates, lines 94-116: the loaded data with both
\* candidate names of every record normalized
normalized_candidates(data) ==
    LET record_of(county_data) ==
            [county_data EXCEPT !.dem_candidate = normalize_name(@),
                                !.rep_candidate = normalize_name(@)]
        contest_of(contest_data) ==
            [contest_data EXCEPT !.results =
                [county \in DOMAIN contest_data.results |->
                    record_of(contest_data.results[county])]]
        office_of(office_data) ==
            [contest \in DOMAIN office_data |-> contest_of(office_data[contest])]
        year_of(year_data) ==
            [office \in DOMAIN year_data |-> office_of(year_data[office])]
    IN  [data EXCEPT !.results_by_year.data =
            [year \in DOMAIN data.results_by_year.data |->
                year_of(data.results_by_year.data[year])]]

----------------------------------------------------------------------------
(* Two scripts that rewrite the file, run at the same time *)

Scripts == {"merge_official_2022_data", "merge_official_2024_data",
            "normalize_candidate_names"}

\* the official CSV a merge script reads in these runs
RunCsvs ==
    CsvSamples
    \cup {<<CsvRow(sERIE, "Attorney General", sDemocratic, MaxVotes),
            CsvRow(sERIE, "Attorney General", sRepublican, 1)>>}

\* what a script makes of the data it has loaded, up to its json.dump
Updated(script_, data, rows) ==
    CASE script_ = "merge_official_2022_data" ->
             merged_2022(data, aggregate_csv_data(rows, 2022))
      [] script_ = "merge_official_2024_data" ->
             merged_2024(data, aggregate_csv_data(rows, 2024))
      [] script_ = "normalize_candidate_names" -> normalized_candidates(data)

\* the data a run saves is read from the file as it is when the run saves
ReadOnSave(run, f) == JsonLoad(f)

\* the data a run saves is the data it loaded: the file is not read again
InMemory(run, f) == run.data

\* a failed write leaves the file as it was
ReplacedWhenWhole(old, part) == old

\* a failed write leaves the text written so far in the place of the file
LeftOnDisk(old, part) == part

InitConcurrent ==
    /\ pc = "concurrent"
    /\ runs \in [{1, 2} -> {[script |-> sc, pc |-> "start", data |-> EmptyDoc, loaded_at |-> 0]
                               : sc \in Scripts}]
    /\ writes = <<>>
    /\ torn = FALSE
    /\ file \in InitialDocs
    /\ file_before = file
    /\ file_first = file
    /\ csv_df \in RunCsvs
    /\ csv_aggregated = EmptyDict
    /\ script = 0
    /\ merges = 0
    /\ office_df = <<>>
    /\ idx = 0
    /\ county_results = EmptyOD
    /\ election_data = EmptyOD
    /\ official_file = 0
    /\ official_df = <<>>
    /\ files_found = {}
    /\ raw = [fn |-> "", arg |-> <<>>, office_name |-> ""]
    /\ normalized = <<>>
    /\ trend_years = <<>>
    /\ fetch = [race |-> 0, race_id |-> 0, url |-> 0]
    /\ requests = <<>>
    /\ NoReport

run_unchanged ==
    <<pc, file_before, file_first, csv_df, csv_aggregated, script, merges, office_df, idx,
      county_results, election_data, official_file, official_df, files_found, raw,
      normalized, trend_years, fetch, requests, margin_pct, competitiveness,
      county_trends, flipped, statewide>>

\* json.load of the whole file (merge_data lines 165-167, normalize_json_candidates
\* lines 86-87); a text that stops before its end raises JSONDecodeError
Load(p) ==
    /\ pc = "concurrent"
    /\ runs[p].pc = "start"
    /\ runs' = IF torn
               THEN [runs EXCEPT ![p].pc = "crashed"]
               ELSE [runs EXCEPT ![p].pc = "loaded",
                                 ![p].data = JsonLoad(file),
                                 ![p].loaded_at = Len(writes)]
    /\ UNCHANGED <<file, writes, torn, run_unchanged>>

\* open(json_file, 'w') and json.dump (merge_data lines 200-202,
\* normalize_json_candidates lines 120-121): the file is overwritten in place
Save(p) ==
    /\ pc = "concurrent"
    /\ runs[p].pc = "loaded"
    /\ file' = JsonDump(Updated(runs[p].script, InMemory(runs[p], file), csv_df))
    /\ torn' = FALSE
    /\ writes' = Append(writes, p)
    /\ runs' = [runs EXCEPT ![p].pc = "written"]
    /\ UNCHANGED run_unchanged

\* the same write, failing after k members of results_by_year: open(..., 'w')
\* has emptied the file and the text written so far is what it holds
SaveFails(p) ==
    /\ pc = "concurrent"
    /\ runs[p].pc = "loaded"
    /\ LET new == JsonDump(Updated(runs[p].script, InMemory(runs[p], file), csv_df))
       IN  \E k \in 0..Len(new.results_by_year) :
               /\ k < Len(new.results_by_year) \/ k = 0
               /\ LET left == LeftOnDisk([file |-> file, torn |-> torn],
                                         [file |-> [new EXCEPT !.results_by_year =
                                                       SubSeq(@, 1, k)],
                                          torn |-> TRUE])
                  IN  /\ file' = left.file
                      /\ torn' = left.torn
    /\ runs' = [runs EXCEPT ![p].pc = "failed"]
    /\ UNCHANGED <<writes, run_unchanged>>

----------------------------------------------------------------------------
(* One run of process_openelections or of a merge script run MaxMerges times *)

Init == InitProcess \/ InitMerge \/ InitClassify \/ InitReport \/ InitNormalize
        \/ InitFetch \/ InitConcurrent

Next ==
    \/ MissingYear
    \/ SkipRace
    \/ LoadRow
    \/ ComputeMargins
    \/ MergeOfficial
    \/ CreateOutputJson
    \/ AggregateCsv
    \/ MergeData2022
    \/ MergeData2024
    \/ GetCompetitiveness
    \/ GetCompetitiveness2022
    \/ GetCompetitiveness2024
    \/ IdentifyFlippedCounties
    \/ AnalyzeStatewideTrends
    \/ AnalyzeCountyTrends
    \/ NormalizeCountyName
    \/ NormalizePartyCode
    \/ NormalizeCandidateName
    \/ Request
    \/ FetchDone
    \/ \E p \in {1, 2} : Load(p)
    \/ \E p \in {1, 2} : Save(p)
    \/ \E p \in {1, 2} : SaveFails(p)

Spec == Init /\ [][Next]_vars


----------------------------------------------------------------------------
(* What the claims speak about *)

RECURSIVE SumOf(_, _)
\* the sum of f[i] over the indices i in S
SumOf(S, f) ==
    IF S = {} THEN 0
    ELSE LET i == CHOOSE x \in S : TRUE
         IN  f[i] + SumOf(S \ {i}, f)

\* the records of one year's section, and of a whole file
SectionRecords(section) ==
    UNION {UNION {Range(section[c][k].results) : k \in DOMAIN section[c]} :
           c \in DOMAIN section}

FileRecords(f) ==
    UNION {SectionRecords(f.results_by_year[i][2]) : i \in DOMAIN f.results_by_year}

\* the county keys of a file
SectionCounties(section) ==
    UNION {UNION {DOMAIN section[c][k].results : k \in DOMAIN section[c]} :
           c \in DOMAIN section}

FileCounties(f) ==
    UNION {SectionCounties(f.results_by_year[i][2]) : i \in DOMAIN f.results_by_year}

\* the document a reader gets from the file: metadata and year -> section
Content(f) ==
    [metadata |-> f.metadata, results_by_year |-> JsonLoad(f).results_by_year.data]

\* the rows of office_df that the loop has counted among the first n
CountedRows(n) == {i \in 1..n : ~RowSkipped(office_df[i])}

\* the party code under which load_election_data counts row i
PartyOfRow(i) == RowParty(office_df[i], LoadRace, CandidatePartyMap(office_df, LoadRace))

RowVotes == [i \in 1..Len(office_df) |-> office_df[i].votes.n]

\* C1 as stated: every record of the file has
\* total_votes = dem_votes + rep_votes + other_votes
C1_TotalIsSum ==
    \A r \in FileRecords(file) :
        r.total_votes = r.dem_votes + r.rep_votes + r.other_votes

\* C2 as stated: a merge leaves every year/contest block of the document
\* unchanged for which the CSV has no rows
C2_UnsuppliedBlocksKept ==
    merges >= 1 =>
        LET before == Content(file_before).results_by_year
            after == Content(file).results_by_year
            supplied(y, c) ==
                /\ y = StrKey(script)
                /\ \E i \in 1..Len(csv_df) :
                       normalize_office_name(script, csv_df[i].office_name) = c
        IN  \A y \in DOMAIN before : \A c \in DOMAIN before[y] :
                ~supplied(y, c) =>
                    /\ y \in DOMAIN after
                    /\ c \in DOMAIN after[y]
                    /\ after[y][c] = before[y][c]

\* C3 as stated: winner is DEM when dem_votes > rep_votes, REP when
\* rep_votes > dem_votes, TIE when they are equal
C3_WinnerByVotes ==
    \A r \in FileRecords(file) :
        /\ r.dem_votes > r.rep_votes => r.winner = "DEM"
        /\ r.rep_votes > r.dem_votes => r.winner = "REP"
        /\ r.dem_votes = r.rep_votes => r.winner = "TIE"

\* C4, load_election_data: each county's DEM, REP and other are the sums of the
\* votes of the county's counted rows of that party
C4_ProcessSums ==
    pc \in {"load", "loaded", "merged", "written"} =>
        LET counted == CountedRows(idx)
            party_map == CandidatePartyMap(office_df, LoadRace)
            party == [i \in counted |-> RowParty(office_df[i], LoadRace, party_map)]
            votes == RowVotes
        IN  /\ DOMAIN county_results.data = {office_df[i].county : i \in counted}
            /\ \A c \in DOMAIN county_results.data :
                   LET mine == {i \in counted : office_df[i].county = c}
                       d == county_results.data[c]
                   IN  /\ d.DEM = SumOf({i \in mine : party[i] = sDEM}, votes)
                       /\ d.REP = SumOf({i \in mine : party[i] = sREP}, votes)
                       /\ d.other =
                              SumOf({i \in mine : party[i] \notin {sDEM, sREP}}, votes)

CsvRowVotes == [i \in 1..Len(csv_df) |-> CsvVotes(csv_df[i].votes)]

\* C4, aggregate_csv_data: the same for the office/county groups of the CSV
C4_CsvSums ==
    pc = "aggregated" =>
        \A o \in DOMAIN csv_aggregated : \A c \in DOMAIN csv_aggregated[o] :
            LET mine == {i \in 1..Len(csv_df) :
                            /\ normalize_office_name(script, csv_df[i].office_name) = o
                            /\ Title(csv_df[i].county_name) = c}
                dem == {i \in mine : Contains(csv_df[i].party_name, sDemocratic)}
                rep == {i \in mine \ dem : Contains(csv_df[i].party_name, sRepublican)}
                d == csv_aggregated[o][c]
            IN  /\ d.dem_votes = SumOf(dem, CsvRowVotes)
                /\ d.rep_votes = SumOf(rep, CsvRowVotes)
                /\ d.other_votes = SumOf((mine \ dem) \ rep, CsvRowVotes)

\* C4: for each county of a contest the aggregated Democratic, Republican and
\* other votes are the sums over all of the county's rows of that party; rows
\* of the same county and party are added, never overwritten
C4_VotesAreSummed == C4_ProcessSums /\ C4_CsvSums

\* C4's case: a county got two rows of the same major party
C4_Witness ==
    /\ pc = "loaded"
    /\ \E i, j \in CountedRows(Len(office_df)) :
           /\ i < j
           /\ office_df[i].county = office_df[j].county
           /\ PartyOfRow(i) = sDEM
           /\ PartyOfRow(j) = sDEM
           /\ county_results.data[office_df[i].county].DEM >=
                  office_df[i].votes.n + office_df[j].votes.n

\* C5 as stated: all_parties maps every party code of the county's rows to the
\* party's total votes in the county
C5_AllPartiesTotals ==
    pc \in {"load", "loaded", "merged", "written"} =>
        \A c \in DOMAIN county_results.data :
            LET mine == {i \in CountedRows(idx) : office_df[i].county = c}
                all_parties == county_results.data[c].all_parties
            IN  /\ DOMAIN all_parties = {PartyOfRow(i) : i \in mine} \ {<<>>}
                /\ \A p \in DOMAIN all_parties :
                       all_parties[p] = SumOf({i \in mine : PartyOfRow(i) = p}, RowVotes)

\* C6 as stated: the rows whose county names normalise to the same name end up
\* in one record whose vote counts are the sums over all those rows
C6_SpellingsSummed ==
    (pc = "written" /\ Len(office_df) > 0 /\ official_file # LoadYear) =>
        LET counted == CountedRows(Len(office_df))
            names == {normalize_county_name(office_df[i].county) : i \in counted}
            results == file.results_by_year[1][2][office_mapping[LoadRace].category][
                           <<office_mapping[LoadRace].category, LoadYear>>].results
        IN  /\ DOMAIN results = names
            /\ \A n \in names :
                   LET mine == {i \in counted :
                                   normalize_county_name(office_df[i].county) = n}
                   IN  /\ results[n].dem_votes =
                              SumOf({i \in mine : PartyOfRow(i) = sDEM}, RowVotes)
                       /\ results[n].rep_votes =
                              SumOf({i \in mine : PartyOfRow(i) = sREP}, RowVotes)
                       /\ results[n].total_votes = SumOf(mine, RowVotes)

\* C7 as stated: every county key of results_by_year is the value
\* normalize_county_name returns for it
C7_CountyKeysCanonical ==
    \A c \in FileCounties(file) : c = normalize_county_name(c)

\* m hundredths of a percent is num / den * 100 rounded to two decimals
IsPctOf(m, num, den) ==
    LET diff == m * den - num * 10000
    IN  2 * (IF diff >= 0 THEN diff ELSE 0 - diff) <= den

\* C8: margin_pct is (dem_votes - rep_votes) / (dem_votes + rep_votes) * 100,
\* rounded to two decimals, whenever the two-party total is positive; a county
\* is left without a computed margin, and its record has margin_pct 0, only
\* when both counts are zero
C8_TwoPartyMargin ==
    /\ \A r \in FileRecords(file) :
           IF r.dem_votes + r.rep_votes > 0
           THEN IsPctOf(r.margin_pct, r.dem_votes - r.rep_votes,
                        r.dem_votes + r.rep_votes)
           ELSE r.margin_pct = 0
    /\ pc \in {"loaded", "written"} =>
           \A c \in DOMAIN county_results.data :
               LET d == county_results.data[c]
               IN  IF d.DEM + d.REP > 0
                   THEN /\ "margin_pct" \in DOMAIN d
                        /\ IsPctOf(d.margin_pct, d.DEM - d.REP, d.DEM + d.REP)
                   ELSE "margin_pct" \notin DOMAIN d

\* C8's case: a written record with minor-party votes and a nonzero margin,
\* beside a county without any major-party vote
C8_Witness ==
    /\ pc = "written"
    /\ \E r \in FileRecords(file) :
           r.other_votes > 0 /\ r.margin # 0 /\ r.total_votes > r.two_party_total
    /\ \E r \in FileRecords(file) : r.dem_votes + r.rep_votes = 0

\* C9 as stated: after a merge metadata.years and metadata.contests are sorted,
\* free of duplicates and equal to the years and contest categories present in
\* results_by_year
C9_MetadataDerived ==
    merges >= 1 =>
        LET doc == Content(file)
            years == doc.metadata.years
            contests == doc.metadata.contests
        IN  /\ \A i, j \in 1..Len(years) : i < j => years[i] < years[j]
            /\ Range(years) = {y[2] : y \in DOMAIN doc.results_by_year}
            /\ contests = SortedContests(Range(contests))
            /\ Range(contests) =
                   UNION {DOMAIN doc.results_by_year[y] : y \in DOMAIN doc.results_by_year}

\* C10: merging the same batch again leaves the document's content as the
\* first merge left it
C10_MergeIdempotent ==
    merges >= 2 => Content(file) = Content(file_first)

\* C10's case: a batch with rows was merged twice into a document that already
\* had a section for the year, and the first merge changed the document
C10_Witness ==
    /\ merges = 2
    /\ Len(csv_df) > 0
    /\ StrKey(script) \in DOMAIN Content(file_before).results_by_year
    /\ Content(file_first) # Content(file_before)

\* the greatest index of a non-empty set of row indices
LastOf(S) == CHOOSE i \in S : \A j \in S : j <= i

\* the official rows that load_official_statewide_2024 counts among rows
CountedOfficial(rows) == {i \in 1..Len(rows) : ~OfficialRowSkipped(rows[i])}

\* C11, load_election_data: the candidate of a major party is the normalised
\* name of the party's last row in the county that has a name
C11_ProcessCandidates ==
    pc \in {"load", "loaded", "merged", "written"} =>
        \A c \in DOMAIN county_results.data :
            LET named(p) == {i \in CountedRows(idx) :
                                /\ office_df[i].county = c
                                /\ PartyOfRow(i) = p
                                /\ office_df[i].candidate # <<>>}
                label(p) == normalize_candidate_name(
                                office_df[LastOf(named(p))].candidate, LoadRace)
            IN  /\ named(sDEM) # {} => county_results.data[c].dem_candidate = label(sDEM)
                /\ named(sREP) # {} => county_results.data[c].rep_candidate = label(sREP)

\* the county_name_map of main: built from what load_election_data returned
MainCountyNameMap ==
    build_county_name_map(ODSet(EmptyOD, LoadYear, ODSet(EmptyOD, LoadRace, county_results)))

\* C11, load_official_statewide_2024: the same for the block of 2024
C11_Statewide2024Candidates ==
    (pc \in {"merged", "written"} /\ official_file = 2024) =>
        LET block == election_data.data[2024].data["U.S. Senate"]
        IN  \A c \in DOMAIN block.data :
                LET named(p) == {i \in CountedOfficial(official_df) :
                                    /\ OfficialCounty(official_df[i], MainCountyNameMap) = c
                                    /\ normalize_party_code(official_df[i].party_name) = p
                                    /\ official_df[i].candidate_name # <<>>}
                    label(p) == normalize_candidate_name(
                                    Strip(official_df[LastOf(named(p))].candidate_name),
                                    "U.S. Senate")
                IN  /\ named(sDEM) # {} => block.data[c].dem_candidate = label(sDEM)
                    /\ named(sREP) # {} => block.data[c].rep_candidate = label(sREP)

\* C11, aggregate_csv_data: the same for the office/county groups of the CSV
C11_CsvCandidates ==
    pc = "aggregated" =>
        \A o \in DOMAIN csv_aggregated : \A c \in DOMAIN csv_aggregated[o] :
            LET named(p) == {i \in 1..Len(csv_df) :
                                /\ normalize_office_name(script, csv_df[i].office_name) = o
                                /\ Title(csv_df[i].county_name) = c
                                /\ Contains(csv_df[i].party_name, p)
                                /\ csv_df[i].candidate_name # <<>>}
                label(p) == Title(csv_df[LastOf(named(p))].candidate_name)
            IN  /\ named(sDemocratic) # {} =>
                       csv_aggregated[o][c].dem_candidate = label(sDemocratic)
                /\ named(sRepublican) # {} =>
                       csv_aggregated[o][c].rep_candidate = label(sRepublican)

\* C11 as stated: for each county and major party of a non-presidential contest
\* the recorded dem_candidate / rep_candidate is the last non-empty candidate
\* name seen among the party's rows; a later row of the party without a
\* candidate name does not erase a name recorded earlier
C11_LastNonEmptyCandidate ==
    C11_ProcessCandidates /\ C11_Statewide2024Candidates /\ C11_CsvCandidates

\* what each loader of main returned in this run
RowOfficesData == load_official_row_offices(official_file, official_df, MainCountyNameMap)
UsSenateData == load_official_us_senate(official_file, official_df, MainCountyNameMap)
Statewide2024Data == load_official_statewide_2024(official_file, official_df, MainCountyNameMap)

\* the votes of party code p among the official rows counted for county c, the
\* party code taken as the loader named takes it
OfficialPartyCode(loader, row) ==
    LET party_name == Strip(StrOfCell(row.party_name))
    IN  CASE loader = "row_offices" ->
                 Get(party_code_map_row_offices, party_name, Upper(party_name))
          [] loader = "us_senate" ->
                 Get(party_code_map_us_senate, party_name, Upper(party_name))
          [] loader = "statewide_2024" -> normalize_party_code(row.party_name)

OfficialVotes == [i \in 1..Len(official_df) |-> official_df[i].votes.n]

OfficialSum(loader, c, p) ==
    SumOf({i \in CountedOfficial(official_df) :
              /\ OfficialCounty(official_df[i], MainCountyNameMap) = c
              /\ OfficialPartyCode(loader, official_df[i]) = p}, OfficialVotes)

\* the block of election_data is the county_results the loader returned, and
\* its vote counts are the sums over the loader's rows alone
BlockIsOf(year, race_type, official_data, loader) ==
    LET block == election_data.data[year].data[race_type]
    IN  /\ block = official_data.data[year].data[race_type]
        /\ \A c \in DOMAIN block.data :
               /\ block.data[c].DEM = OfficialSum(loader, c, sDEM)
               /\ block.data[c].REP = OfficialSum(loader, c, sREP)

\* C12: after main has merged the loaders, a (year, race) that a loader
\* supplied holds only the county records of the loader that ran last: the
\* block loaded from OpenElections or by an earlier loader is replaced, and no
\* vote counts of two sources are added together
C12_LastLoaderWins ==
    pc \in {"merged", "written"} =>
        /\ official_file = 2012 =>
               BlockIsOf(2012, "Auditor General", RowOfficesData, "row_offices")
        /\ official_file = 2024 =>
               BlockIsOf(2024, "U.S. Senate", Statewide2024Data, "statewide_2024")

\* C12's case: the official returns of 2012 were merged over a block loaded
\* from OpenElections that has a county with votes of its own
C12_Witness ==
    /\ pc = "merged"
    /\ official_file = LoadYear
    /\ \E c \in DOMAIN county_results.data :
           /\ county_results.data[c].DEM > 0
           /\ c \in DOMAIN election_data.data[LoadYear].data[LoadRace].data
           /\ election_data.data[LoadYear].data[LoadRace].data[c].DEM > 0
           /\ election_data.data[LoadYear].data[LoadRace].data[c] # county_results.data[c]

\* C12's other case: load_official_statewide_2024 replaced a block that
\* load_official_us_senate had supplied with other records
C12_WitnessLoaders ==
    /\ pc = "merged"
    /\ official_file = 2024
    /\ UsSenateData # Statewide2024Data

\* get_competitiveness of the script named
Classify(script_, m) ==
    CASE script_ = "process" -> get_competitiveness(m)
      [] script_ = "2022" -> get_competitiveness_2022(m)
      [] script_ = "2024" -> get_competitiveness_2024(m)

\* the bucket codes from the most Republican to the most Democratic
CodeOrder ==
    <<"R_ANNIHILATION", "R_DOMINANT", "R_STRONGHOLD", "R_SAFE", "R_LIKELY", "R_LEAN",
      "R_TILT", "TOSSUP", "D_TILT", "D_LEAN", "D_LIKELY", "D_SAFE", "D_STRONGHOLD",
      "D_DOMINANT", "D_ANNIHILATION">>

Rank(code) == CHOOSE i \in 1..Len(CodeOrder) : CodeOrder[i] = code

\* the margin one step below m: a quarter of a percent on the grid
Below(m) == [num |-> m.num - 1, den |-> m.den]

\* C13: for every margin_pct each get_competitiveness returns one bucket record
\* (category, party, code, color) of the table, and the buckets lie on the line
\* in the table's order without a gap: a greater margin never gets a bucket
\* that lies further to the Republican side
C13_OneBucket ==
    pc = "classified" =>
        LET result == competitiveness.result
            below == Classify(competitiveness.script, Below(margin_pct))
        IN  /\ DOMAIN result = {"category", "party", "code", "color"}
            /\ \E i \in 1..Len(CodeOrder) : CodeOrder[i] = result.code
            /\ result = Classify(competitiveness.script, margin_pct)
            /\ Rank(below.code) <= Rank(result.code)

\* C13's case: get_competitiveness of process_openelections was given a margin
\* that is a threshold between two buckets, and so was the table of 2024
C13_Witness ==
    /\ pc = "classified"
    /\ \/ /\ competitiveness.script = "process"
          /\ margin_pct = [num |-> 2, den |-> 4]
          /\ competitiveness.result.code = "D_TILT"
       \/ /\ competitiveness.script = "2024"
          /\ margin_pct = [num |-> -160, den |-> 4]
          /\ competitiveness.result.code = "R_ANNIHILATION"

\* the boundaries of the buckets in halves of a percent, and for each the
\* code of the bucket on its inner side
Boundaries == {1, 2, 11, 20, 40, 60, 80}

InnerCode(side, halves) ==
    CASE halves = 1 -> "TOSSUP"
      [] halves = 2 -> side \o "_TILT"
      [] halves = 11 -> side \o "_LEAN"
      [] halves = 20 -> side \o "_LIKELY"
      [] halves = 40 -> side \o "_SAFE"
      [] halves = 60 -> side \o "_STRONGHOLD"
      [] halves = 80 -> side \o "_DOMINANT"

\* C14 as stated: a margin_pct on a bucket boundary is assigned to the inner,
\* more competitive bucket, for Democratic and Republican margins alike
C14_BoundaryInner ==
    (pc = "classified" /\ competitiveness.script \in {"process", "2022"}) =>
        \A b \in Boundaries :
            (2 * AbsPct(margin_pct).num = b * margin_pct.den) =>
                competitiveness.result.code =
                    InnerCode(IF margin_pct.num > 0 THEN "D" ELSE "R", b)

\* C16 as stated: the three get_competitiveness return the same category and
\* code for every margin_pct
C16_SameTable ==
    pc = "classified" =>
        \A a, b \in {"process", "2022", "2024"} :
            /\ Classify(a, margin_pct).category = Classify(b, margin_pct).category
            /\ Classify(a, margin_pct).code = Classify(b, margin_pct).code

\* C17 as stated: the party returned is Democratic, Republican or Tossup, and
\* it is Tossup exactly when the category is Tossup
C17_PartyField ==
    (pc = "classified" /\ competitiveness.script \in {"process", "2022"}) =>
        /\ competitiveness.result.party \in {"Democratic", "Republican", "Tossup"}
        /\ competitiveness.result.party = "Tossup" <=>
               competitiveness.result.category = "Tossup"

----------------------------------------------------------------------------
(* The statewide figures and the flipped counties of generate_detailed_findings *)

\* the contests of the category asked for, as <<position of the year, contest key>>
ContestsAskedFor ==
    {yk \in UNION {{<<i, k>> : k \in DOMAIN Get(file.results_by_year[i][2],
                                                  statewide.contest_type, EmptyDict)} :
                      i \in 1..Len(file.results_by_year)} : TRUE}

ContestOf(yk) == file.results_by_year[yk[1]][2][statewide.contest_type][yk[2]]

CountySum(yk, field) ==
    SumOf(DOMAIN ContestOf(yk).results,
          [c \in DOMAIN ContestOf(yk).results |-> ContestOf(yk).results[c][field]])

EntriesOf(yk) ==
    {i \in 1..Len(statewide.entries) :
        /\ statewide.entries[i].year = file.results_by_year[yk[1]][1]
        /\ statewide.entries[i].contest = ContestOf(yk).contest_name}

RECURSIVE Gcd(_, _)
Gcd(a, b) == IF b = 0 THEN a ELSE Gcd(b, a % b)

\* a quotient in lowest terms
Lowest(q) ==
    LET g == Gcd(IF q.num < 0 THEN 0 - q.num ELSE q.num, q.den)
    IN  [num |-> q.num \div g, den |-> q.den \div g]

\* C15: with the counties at 6000/4000 and 3000/7000 the statewide entry has
\* 9000 Democratic and 11000 Republican votes, margin -2000, margin_pct -10.0,
\* winner REP, and -10.0 is classified 'Likely Republican'
C15_ScenarioCategory ==
    (pc = "analyzed" /\ file = ScenarioDoc /\ statewide.contest_type = "president") =>
        /\ Len(statewide.entries) = 1
        /\ statewide.entries[1].dem_votes = 9000
        /\ statewide.entries[1].rep_votes = 11000
        /\ statewide.entries[1].margin = -2000
        /\ statewide.entries[1].margin_pct.num = -10 * statewide.entries[1].margin_pct.den
        /\ statewide.entries[1].winner = "REP"
        /\ \E script_ \in {"process", "2022", "2024"} :
               Classify(script_, statewide.entries[1].margin_pct).category
                   = "Likely Republican"

\* C19: each statewide entry holds the sums of the counties' Democratic,
\* Republican and other votes of its contest, and its margin and margin_pct
\* are derived from these sums
C19_StatewideSums ==
    pc = "analyzed" =>
        /\ Len(statewide.entries) = Cardinality(ContestsAskedFor)
        /\ \A yk \in ContestsAskedFor :
               /\ Cardinality(EntriesOf(yk)) = 1
               /\ \A i \in EntriesOf(yk) :
                      LET entry == statewide.entries[i]
                          dem == CountySum(yk, "dem_votes")
                          rep == CountySum(yk, "rep_votes")
                      IN  /\ entry.dem_votes = dem
                          /\ entry.rep_votes = rep
                          /\ entry.other_votes = CountySum(yk, "other_votes")
                          /\ entry.margin = dem - rep
                          /\ entry.margin_pct.den > 0
                          /\ IF dem + rep > 0
                             THEN Lowest(entry.margin_pct)
                                      = Lowest([num |-> 100 * (dem - rep), den |-> dem + rep])
                             ELSE entry.margin_pct.num = 0

\* counties of different sizes, so that the margin of the sums is not the mean
\* of the county margins
C19_Witness ==
    /\ pc = "analyzed"
    /\ Len(statewide.entries) = 1
    /\ statewide.entries[1].dem_votes = MaxVotes + 1
    /\ statewide.entries[1].rep_votes = MaxVotes
    /\ statewide.entries[1].other_votes > 0
    /\ \E yk \in ContestsAskedFor :
           \E c \in DOMAIN ContestOf(yk).results :
               /\ ContestOf(yk).results[c].dem_votes = MaxVotes
               /\ ContestOf(yk).results[c].rep_votes = 0

Earliest(data) == CHOOSE r \in Range(data) : \A q \in Range(data) : r.year <= q.year

Latest(data) == CHOOSE r \in Range(data) : \A q \in Range(data) : r.year >= q.year

ListedAs(county) == {i \in 1..Len(flipped) : flipped[i][1] = county}

\* C18: a county is listed as flipped, once, exactly when it has two or more
\* records and the winner of its earliest year differs from the winner of its
\* latest year; the swing is the latest margin_pct minus the earliest, in
\* whatever order the records were supplied
C18_FlippedCounties ==
    pc = "flipped" =>
        \A county \in Range(county_trends.keys) :
            LET data == county_trends.data[county]
            IN  /\ IF Len(data) >= 2 /\ Earliest(data).winner # Latest(data).winner
                   THEN /\ Cardinality(ListedAs(county)) = 1
                        /\ \A i \in ListedAs(county) :
                               flipped[i][2].swing
                                   = Latest(data).margin_pct - Earliest(data).margin_pct
                   ELSE ListedAs(county) = {}
                /\ Len(data) >= 2 =>
                       calculate_swing(data)
                           = Latest(data).margin_pct - Earliest(data).margin_pct

\* a county listed whose records were supplied latest year first
C18_Witness ==
    /\ pc = "flipped"
    /\ Len(flipped) = 2
    /\ ListedAs(sErie) # {}
    /\ Len(county_trends.data[sErie]) = 3
    /\ county_trends.data[sErie][1].year > county_trends.data[sErie][3].year
    /\ county_trends.data[sErie][1].margin_pct # county_trends.data[sErie][3].margin_pct

----------------------------------------------------------------------------
(* Rows that fail to parse *)

\* a row of the county-level CSV with every field present and a number of votes
ParsesCsv(row) == ~CsvRowRaises(row) /\ row.votes.t = "num"

CsvColumn(row) ==
    IF Contains(row.party_name, sDemocratic) THEN "dem_votes"
    ELSE IF Contains(row.party_name, sRepublican) THEN "rep_votes" ELSE "other_votes"

\* the rows that parse, of one office, county and column
ParsedCsvRows(office, county, column) ==
    {i \in 1..Len(csv_df) :
        /\ ParsesCsv(csv_df[i])
        /\ normalize_office_name(script, csv_df[i].office_name) = office
        /\ Title(csv_df[i].county_name) = county
        /\ CsvColumn(csv_df[i]) = column}

\* C20: a row that fails to parse is skipped on its own: the batch is not
\* aborted, and the totals of each county are the sums of the rows that parse
C20_BadRowSkipped ==
    pc \in {"aggregated", "crashed"} =>
        /\ pc = "aggregated"
        /\ \A i \in 1..Len(csv_df) :
               ParsesCsv(csv_df[i]) =>
                   LET office == normalize_office_name(script, csv_df[i].office_name)
                       county == Title(csv_df[i].county_name)
                   IN  /\ office \in DOMAIN csv_aggregated
                       /\ county \in DOMAIN csv_aggregated[office]
                       /\ \A column \in {"dem_votes", "rep_votes", "other_votes"} :
                              csv_aggregated[office][county][column]
                                  = SumOf(ParsedCsvRows(office, county, column),
                                          [j \in 1..Len(csv_df) |-> CsvVotes(csv_df[j].votes)])

----------------------------------------------------------------------------
(* The normalize_* functions *)

\* the letters of a string, in lower case
LettersOf(s) == Lower(SelectSeq(s, IsAlpha))

Blank(s) == \A i \in 1..Len(s) : s[i] = " "

EndsWith(s, p) == Len(s) >= Len(p) /\ SubSeq(s, Len(s) - Len(p) + 1, Len(s)) = p

\* the letter at position i begins a word, or follows "Mc" at the beginning of a word
CapitalPlace(s, i) ==
    \/ i = 1
    \/ ~IsAlpha(s[i-1])
    \/ /\ i >= 3
       /\ s[i-2] = "M"
       /\ s[i-1] = "c"
       /\ (i = 3 \/ s[i-3] = " ")

C25_WitnessBlank ==
    /\ pc = "normalized"
    /\ raw.fn = "county"
    /\ raw.arg = <<" ">> \o SpaceCounty \o <<" ">>
    /\ normalized = <<>>

\* C26: normalize_party_code gives every spelling of a party of its table, in
\* any letter case, the party's short code, and an unknown party in upper case
C26_PartyCode ==
    (pc = "normalized" /\ raw.fn = "party") =>
        LET p == Strip(raw.arg)
            spelled == {key \in DOMAIN party_mapping : Lower(key) = Lower(p)}
        IN  IF spelled = {}
            THEN normalized = Upper(p)
            ELSE \A key \in spelled : normalized = party_mapping[key]

\* the word "and" between two blanks, in any letter case
AndWordAt(s, i) ==
    /\ i >= 2
    /\ i + 3 <= Len(s)
    /\ s[i-1] = " "
    /\ Lower(SubSeq(s, i, i + 2)) = <<"a","n","d">>
    /\ s[i+3] = " "

HasRunningMate(s) ==
    \E i \in 1..Len(s) : s[i] \in {"/", "&"} \/ AndWordAt(s, i)

\* C30: for President and Governor a name without a running-mate separator
\* ('/', '&', the word 'and') keeps every letter of its tokens
C30_NameKept ==
    (/\ pc = "normalized"
     /\ raw.fn = "candidate"
     /\ raw.office_name \in {"President", "Governor"}
     /\ ~HasRunningMate(raw.arg)) =>
        LettersOf(normalized) = LettersOf(raw.arg)

----------------------------------------------------------------------------
(* The competitiveness stored with a record *)

\* the stored margin_pct, hundredths of a percent, as a quotient
StoredPct(record) == [num |-> record.margin_pct, den |-> 100]

\* C27: the competitiveness stored with a record is get_competitiveness of the
\* record's stored, rounded margin_pct
C27_StoredCompetitiveness ==
    /\ pc = "written" =>
           \A record \in FileRecords(file) :
               record.two_party_total > 0 =>
                   record.competitiveness = get_competitiveness(StoredPct(record))
    /\ (script # 0 /\ merges > 0 /\ file_before = EmptyDoc) =>
           \A record \in FileRecords(file) :
               record.competitiveness =
                   IF script = 2022 THEN get_competitiveness_2022(StoredPct(record))
                   ELSE get_competitiveness_2024(StoredPct(record))

\* C28: every record create_output_json writes has a competitiveness with a
\* category, and analyze_county_trends reads the file without a KeyError
C28_TrendsReadable ==
    /\ pc = "written" =>
           \A record \in FileRecords(file) : "category" \in DOMAIN record.competitiveness
    /\ pc # "key_error"

----------------------------------------------------------------------------
(* The 2024 section after merge_official_2024_data *)

\* the members of results_by_year written for a year
MembersOf(f, year) == {i \in 1..Len(f.results_by_year) : f.results_by_year[i][1] = year}

\* C29: after merge_official_2024_data has run on a file that had a 2024
\* section, the file written holds one 2024 section, the one built from the
\* CSV, and no record of the section it had before
C29_Single2024Section ==
    (script = 2024 /\ merges = 1 /\ pc = "start" /\ MembersOf(file_before, 2024) # {}) =>
        /\ Cardinality(MembersOf(file, 2024)) = 1
        /\ \A i \in MembersOf(file, 2024) :
               file.results_by_year[i][2] = BuiltSection(csv_aggregated, 2024)

----------------------------------------------------------------------------
(* Years whose input file is missing *)

SectionYears(f) == {f.results_by_year[i][1] : i \in 1..Len(f.results_by_year)}

SectionOf(f, year) ==
    f.results_by_year[CHOOSE i \in 1..Len(f.results_by_year) : f.results_by_year[i][1] = year][2]

\* C23: a year whose file is missing is skipped and the other years are
\* loaded; in the file written metadata.years are the years that have a
\* section and metadata.contests the contest categories of the sections
C23_MissingYearSkipped ==
    pc = "written" =>
        /\ files_found \subseteq SectionYears(file)
        /\ SectionYears(file) \subseteq files_found \cup {official_file}
        /\ LaterYear \in files_found =>
               /\ DOMAIN SectionOf(file, LaterYear) = {office_mapping[LaterRace].category}
               /\ SectionCounties(SectionOf(file, LaterYear)) = {sErie, sBerks}
        /\ Range(file.metadata.years) = SectionYears(file)
        /\ Len(file.metadata.years) = Cardinality(SectionYears(file))
        /\ Range(file.metadata.contests) =
               UNION {DOMAIN SectionOf(file, y) : y \in SectionYears(file)}
        /\ Len(file.metadata.contests) = Cardinality(Range(file.metadata.contests))

\* the file of LoadYear was missing and the later year was loaded and written
C23_Witness ==
    /\ pc = "written"
    /\ files_found = {LaterYear}
    /\ SectionYears(file) = {LaterYear}
    /\ file.metadata.years = <<LaterYear>>

\* the file of the later year was missing and LoadYear was loaded and written
C23_WitnessLater ==
    /\ pc = "written"
    /\ files_found = {LoadYear}
    /\ Len(office_df) > 1
    /\ file.metadata.years = <<LoadYear>>
    /\ file.metadata.contests # <<>>

----------------------------------------------------------------------------
(* The requests of fetch_missing_counties *)

\* C22: after a request has failed no further request is issued, and no
\* address is requested twice in a run
C22_NoRequestAfterFailure ==
    \A i, j \in 1..Len(requests) :
        i < j => /\ requests[i].outcome # "failed"
                 /\ requests[i].url # requests[j].url

----------------------------------------------------------------------------
(* Two scripts run at the same time, and a write that fails *)

\* the file a script leaves when it runs alone on the file f
Alone(script_, f) == JsonDump(Updated(script_, JsonLoad(f), csv_df))

\* C21: when both runs have saved and the run that saved last had loaded the
\* file before the other one saved, the file is the one the last run leaves
\* when it runs alone: what the first run wrote is overwritten
C21_LostUpdate ==
    \A p, q \in {1, 2} :
        (pc = "concurrent" /\ writes = <<p, q>> /\ runs[q].loaded_at = 0) =>
            /\ ~torn
            /\ file = Alone(runs[q].script, file_before)

\* both have saved, the first save had changed the file, and the file is the
\* one neither order of the two scripts leaves
C21_Witness ==
    /\ pc = "concurrent"
    /\ \E p, q \in {1, 2} :
           /\ writes = <<p, q>>
           /\ runs[q].loaded_at = 0
           /\ Alone(runs[p].script, file_before) # file_before
           /\ file = Alone(runs[q].script, file_before)
           /\ file # Alone(runs[q].script, Alone(runs[p].script, file_before))
           /\ file # Alone(runs[p].script, Alone(runs[q].script, file_before))

\* the members of a are the first members of b
IsPrefix(a, b) == Len(a) <= Len(b) /\ a = SubSeq(b, 1, Len(a))

\* C24: a write that fails part-way leaves a text that stops before its end in
\* the place of the file: the first members of the new document, neither the
\* file as it was nor the whole new document
C24_TornWrite ==
    [][\A p \in {1, 2} :
           (pc = "concurrent" /\ runs[p].pc = "loaded" /\ runs'[p].pc = "failed") =>
               /\ torn'
               /\ IsPrefix(file'.results_by_year,
                           Alone(runs[p].script, JsonDump(runs[p].data)).results_by_year)
               /\ ~torn => <<file', torn'>> # <<file, torn>>]_vars

\* a write has failed: the sections the file held are gone and the new
\* document is not there
C24_Witness ==
    /\ pc = "concurrent"
    /\ \E p \in {1, 2} :
           /\ runs[p].pc = "failed"
           /\ torn
           /\ writes = <<>>
           /\ file_before.results_by_year # <<>>
           /\ file.results_by_year = <<>>
           /\ Alone(runs[p].script, file_before).results_by_year # <<>>

====
